---------------------------- MODULE Spec2Model ----------------------------
(***************************************************************************)
(* Model of the SIYI gimbal tracker (Mayuri-kub-26/Tracking).              *)
(*                                                                         *)
(*   - the protocol engine (siyi_protocol.py): CRC-16, sequence counter,   *)
(*     build_packet, parse_packet, as operators over byte sequences;       *)
(*   - the device link (siyi_connection.py): connect, disconnect,          *)
(*     send_packet, the heartbeat thread and the receive thread, every     *)
(*     thread advancing one statement at a time.                           *)
(*                                                                         *)
(* Bytes are the integers 0..255, a bytes object is a sequence of them.    *)
(***************************************************************************)
EXTENDS Integers, Sequences, FiniteSets, TLC

(***************************************************************************)
(* Bounds of the model.                                                    *)
(***************************************************************************)
\* longest payload handed to build_packet in SpecProto
MaxLen == 2
\* builds of one session followed in SpecSeq (one past the wrap at 65536)
MaxSeqBuilds == 65537
\* threads one session object starts in Spec
MaxThreads == 4
\* connect() and disconnect() calls made on the session in Spec
MaxCalls == 3
\* packets built on the session in Spec
MaxBuilds == 2

\* commands called on the controller and the session in SpecCmd
MaxCmds == 2
\* connect() and disconnect() calls made on the controller in SpecCmd
MaxSessions == 2
\* frames the device sends in SpecReq
MaxFrames == 3
\* getter calls made in SpecReq
MaxReqs == 2
\* update and reset calls made on the controller in SpecPid
MaxPidCalls == 4
\* cycles of the control loop in SpecLoop
MaxCycles == 4
\* frames pulled by the producer and read() calls made in SpecCam
MaxPulls == 2
MaxReads == 2
\* cycles of TrackingApp.loop and calls of the API in SpecApp
MaxAppCycles == 2
MaxApi == 2
\* packets the device writes in SpecRx
MaxRxPackets == 2
\* init, update and stop calls made on the tracker in SpecTrk
MaxOps == 3

\* payload byte values tried: 0x00 (heartbeat), 0x01 (center), 0x45, 0xd4
PayloadBytes == {0, 1, 69, 212}
\* command ids tried: Commands.HEARTBEAT, Commands.CENTER
CmdIds == {0, 8}
\* values of the session's counter at which a build is tried
SeqStarts == {0, 65535}

(***************************************************************************)
(* siyi_protocol.py: constants                                             *)
(***************************************************************************)
STX == 26197             \* 0x6655
CTRL_NEED_ACK == 0
CTRL_ACK_PACK == 1
SeqModulus == 65536
CrcPoly == 4129          \* 0x1021
MinPacketLen == 10
HeaderLen == 8
HEARTBEAT == 0
MANUAL_ZOOM == 5
GIMBAL_ROTATION == 7
CENTER == 8
STATUS_INFO == 10
CAPTURE_MODE == 12
ATTITUDE_DATA == 13

(***************************************************************************)
(* Python's ^ on non-negative integers below 2^20, nibble by nibble.       *)
(***************************************************************************)
RECURSIVE XorBits(_, _)
XorBits(a, b) ==
  IF a = 0 THEN b
  ELSE IF b = 0 THEN a
  ELSE (((a % 2) + (b % 2)) % 2) + 2 * XorBits(a \div 2, b \div 2)

XorNibble == [a \in 0..15 |-> [b \in 0..15 |-> XorBits(a, b)]]

Xor(a, b) ==
  XorNibble[a % 16][b % 16]
  + 16 * XorNibble[(a \div 16) % 16][(b \div 16) % 16]
  + 256 * XorNibble[(a \div 256) % 16][(b \div 256) % 16]
  + 4096 * XorNibble[(a \div 4096) % 16][(b \div 4096) % 16]
  + 65536 * XorNibble[(a \div 65536) % 16][(b \div 65536) % 16]

(***************************************************************************)
(* _calculate_crc16: crc = 0; for each byte: crc ^= byte << 8, then eight  *)
(* times: shift left, xor the polynomial in when bit 15 was set, & 0xFFFF. *)
(***************************************************************************)
\* one pass of the inner loop `for _ in range(8)`
CrcBit(crc) ==
  (IF (crc \div 32768) % 2 = 1 THEN Xor(crc * 2, CrcPoly) ELSE crc * 2) % 65536

\* one pass of the outer loop `for byte in data`
CrcByte(crc, byte) ==
  CrcBit(CrcBit(CrcBit(CrcBit(CrcBit(CrcBit(CrcBit(CrcBit(
    Xor(crc, byte * 256)))))))))

\* crc after the first n bytes of data (each byte's value is computed before
\* the next byte is taken up)
RECURSIVE CrcUpTo(_, _)
CrcUpTo(data, n) ==
  IF n = 0 THEN 0
  ELSE CHOOSE v \in {CrcByte(p, data[n]) : p \in {CrcUpTo(data, n - 1)}} : TRUE

\* variant: CRC-16/CCITT-FALSE, the register starting at 0xFFFF
RECURSIVE CrcUpTo_InitFFFF(_, _)
CrcUpTo_InitFFFF(data, n) ==
  IF n = 0 THEN 65535
  ELSE CHOOSE v \in {CrcByte(p, data[n]) : p \in {CrcUpTo_InitFFFF(data, n - 1)}} : TRUE

calculate_crc16_InitFFFF(data) == CrcUpTo_InitFFFF(data, Len(data))

calculate_crc16(data) == CrcUpTo(data, Len(data))

(***************************************************************************)
(* struct.pack / struct.unpack, little-endian                              *)
(***************************************************************************)
PackU16(x) == <<x % 256, x \div 256>>
UnpackU16(lo, hi) == lo + 256 * hi

\* variant: the header packed big-endian ('>HBHHB')
PackHeader_BigEndian(ctrl, data_len, seq, cmd_id) ==
  <<STX \div 256, STX % 256, ctrl, data_len \div 256, data_len % 256,
    seq \div 256, seq % 256, cmd_id>>

\* struct.pack('<HBHHB', STX, ctrl, data_len, seq, cmd_id)
PackHeader(ctrl, data_len, seq, cmd_id) ==
  PackU16(STX) \o <<ctrl>> \o PackU16(data_len) \o PackU16(seq) \o <<cmd_id>>

(***************************************************************************)
(* _get_next_sequence: the value the counter takes after one allocation.   *)
(***************************************************************************)
NextSequence(s) == (s + 1) % SeqModulus

(***************************************************************************)
(* build_packet, after the sequence number has been taken: control byte,   *)
(* header, payload, CRC appended low byte first.                           *)
(***************************************************************************)
CtrlOf(need_ack) == IF need_ack THEN CTRL_NEED_ACK ELSE CTRL_ACK_PACK

\* variant: the CRC appended high byte first
PackPacket_CrcHighFirst(cmd_id, data, need_ack, seq) ==
  LET body == PackHeader(CtrlOf(need_ack), Len(data), seq, cmd_id) \o data
      crc  == calculate_crc16(body)
  IN  body \o <<crc \div 256, crc % 256>>

PackPacket(cmd_id, data, need_ack, seq) ==
  LET body == PackHeader(CtrlOf(need_ack), Len(data), seq, cmd_id) \o data
  IN  body \o PackU16(calculate_crc16(body))

(***************************************************************************)
(* parse_packet: None, or the dictionary of the parsed fields.             *)
(***************************************************************************)
None ==
  [ok |-> FALSE, ctrl |-> 0, data_len |-> 0, seq |-> 0, cmd_id |-> 0,
   data |-> <<>>, crc16 |-> 0]

\* variant: the start marker is not verified
parse_packet_NoStxCheck(packet) ==
  IF Len(packet) < MinPacketLen THEN None
  ELSE
    LET data_len == UnpackU16(packet[4], packet[5])
        expected_len == HeaderLen + data_len + 2
    IN  IF Len(packet) < expected_len THEN None
        ELSE
          LET received_crc16 ==
                UnpackU16(packet[HeaderLen + data_len + 1],
                          packet[HeaderLen + data_len + 2])
              calculated_crc16 ==
                calculate_crc16(SubSeq(packet, 1, HeaderLen + data_len))
          IN  IF received_crc16 # calculated_crc16 THEN None
              ELSE [ok |-> TRUE, ctrl |-> packet[3], data_len |-> data_len,
                    seq |-> UnpackU16(packet[6], packet[7]),
                    cmd_id |-> packet[8],
                    data |-> SubSeq(packet, HeaderLen + 1, HeaderLen + data_len),
                    crc16 |-> received_crc16]

parse_packet(packet) ==
  IF Len(packet) < MinPacketLen THEN None
  ELSE
    LET stx      == UnpackU16(packet[1], packet[2])
        ctrl     == packet[3]
        data_len == UnpackU16(packet[4], packet[5])
        seq      == UnpackU16(packet[6], packet[7])
        cmd_id   == packet[8]
        expected_len == HeaderLen + data_len + 2
    IN  IF stx # STX THEN None
        ELSE IF Len(packet) < expected_len THEN None
        ELSE
          LET data == SubSeq(packet, HeaderLen + 1, HeaderLen + data_len)
              received_crc16 ==
                UnpackU16(packet[HeaderLen + data_len + 1],
                          packet[HeaderLen + data_len + 2])
              calculated_crc16 ==
                calculate_crc16(SubSeq(packet, 1, HeaderLen + data_len))
          IN  IF received_crc16 # calculated_crc16 THEN None
              ELSE [ok |-> TRUE, ctrl |-> ctrl, data_len |-> data_len,
                    seq |-> seq, cmd_id |-> cmd_id, data |-> data,
                    crc16 |-> received_crc16]

(***************************************************************************)
(* A single bit of a packet inverted in transit.                           *)
(***************************************************************************)
Pow2(k) == CASE k = 0 -> 1 [] k = 1 -> 2 [] k = 2 -> 4 [] k = 3 -> 8
             [] k = 4 -> 16 [] k = 5 -> 32 [] k = 6 -> 64 [] k = 7 -> 128

FlipBit(packet, i, k) == [packet EXCEPT ![i] = Xor(packet[i], Pow2(k))]

\* payloads of length 0..MaxLen over PayloadBytes
Payloads == UNION {[1..n -> PayloadBytes] : n \in 0..MaxLen}

(***************************************************************************)
(* State                                                                   *)
(***************************************************************************)
VARIABLES
  sequence,    \* SIYIProtocol.sequence
  pkt,         \* the bytes object under consideration (built, then as received)
  orig,        \* <<>> or <<the arguments and the sequence number of the build>>
  tamper,      \* what happened to pkt in transit: none, flip, trunc, trail, foreign
  parsed,      \* <<>> or <<the result of parse_packet(pkt)>>
  nbuilds,     \* build_packet calls made on the session (SpecProto, SpecSeq)
  socket,             \* SIYIConnection.socket: None, unconnected, open
  connected,          \* SIYIConnection.connected
  heartbeat_running,  \* SIYIConnection.heartbeat_running
  receive_running,    \* SIYIConnection.receive_running
  heartbeat_thread,   \* SIYIConnection.heartbeat_thread: 0 (None) or a thread
  receive_thread,     \* SIYIConnection.receive_thread: 0 (None) or a thread
  th,          \* the threads: 0 is the application thread that sends commands,
               \* 1..MaxThreads those the session starts; each with its
               \* position and the locals of its send_packet call
  owner,       \* the thread that calls connect() and disconnect()
  built,       \* the packets build_packet has returned, in order, each as
               \* the send_packet call it serves and the sequence number taken
  wire,        \* the packets sendall has written to the socket, in order
  link,        \* init; up: the last connect() returned True and disconnect()
               \* was not called since; failed: it returned False; down
  dlog,        \* what the disconnect() call in progress has done so far
  ncalls       \* connect() and disconnect() calls begun

(***************************************************************************)
(* State of the gimbal controller (gimbal.py) and its two PID axes         *)
(***************************************************************************)
VARIABLES
  gc_connected,    \* GimbalController.connected
  pid_yaw,         \* GimbalController.pid_yaw: prev_error, integral, last_time
  pid_pitch,       \* GimbalController.pid_pitch
  last_move_time,  \* GimbalController.last_move_time
  now,             \* time.time(), in ticks of 10 ms
  sock_out,        \* what sendall has written: the number of packets, and
                   \* the last one as build_packet's arguments and the
                   \* sequence number it took
  ret,             \* the last command called and what it returned
  ncmds            \* commands called so far

ctlVars == <<gc_connected, pid_yaw, pid_pitch, last_move_time, now, sock_out,
             ret, ncmds>>

(***************************************************************************)
(* State of a telemetry request (siyi_gimbal.py get_attitude) and of the   *)
(* inbound side of the socket                                              *)
(***************************************************************************)
VARIABLES
  inbox,   \* the socket's receive buffer: the frames the device has sent and
           \* no recv has returned yet, each with the number of requests
           \* written before it was sent
  rq,      \* the getter call: its position, the requests written so far,
           \* the seconds/10 used of its window, what it returned, and
           \* whether a matching frame was sent during its window
  lst,     \* the listener thread: its position, the frames recv gave it
           \* (well-formed and not, as sent), those parse_packet accepted
           \* and refused, and why it ended
  ndev     \* frames the device has sent

reqVars == <<inbox, rq, lst, ndev>>

(***************************************************************************)
(* State of the target tracker (detection/tracker.py)                      *)
(***************************************************************************)
VARIABLES
  tracker_type,     \* ObjectTracker.tracker_type: BYTE (identity lock), or
                    \* CSRT for the visual trackers
  tracker,          \* ObjectTracker.tracker: None or a tracker object
  tracking_active,  \* ObjectTracker.tracking_active
  tracked_id,       \* ObjectTracker.tracked_id: 0 (None) or an identity
  detector,         \* whether ObjectTracker.detector is set
  lock,             \* ObjectTracker.lock: 0 (free) or the thread holding it
  tk,               \* the control loop's thread: its position in init or
                    \* update, and the detections update has got
  stp,              \* the thread that calls stop(): idle, or waiting for
                    \* the lock
  res,              \* what the last init or update did and returned
  nops              \* init, update and stop calls begun

trkVars == <<tracker_type, tracker, tracking_active, tracked_id, detector,
             lock, tk, stp, res, nops>>

(***************************************************************************)
(* State of a PID controller driven on its own, of the control loop        *)
(* (core/app.py, track_and_center.py) and of the frame source              *)
(* (hardware/camera.py, LatestFrameReader of track_and_center.py)          *)
(***************************************************************************)
VARIABLES
  plog,        \* the last PIDController.update call: its error, the dt it
               \* used, its terms and what it returned
  npid,        \* update and reset calls made on the controller
  program,     \* which program runs the loop: "app" (TrackingApp with its
               \* GimbalController) or "script" (track_and_center)
  cyc,         \* what the loop's last cycle did
  ncyc,        \* cycles of the loop
  copies,      \* whether read() copies the frame (Camera) or hands out the
               \* stored object (LatestFrameReader)
  cam_lock,    \* the frame source's lock: 0 (free), or who holds it
  cam_buf,     \* the stored pair self.ret, self.frame (an object, 0: None)
  heap,        \* the frame objects: which pull each holds, drawn on or not
  prod,        \* the producer thread: its position, the pair it pulled,
               \* the stores it made and the pair it stored last
  rdr,         \* the reading thread: idle, or copying the frame in read()
  got,         \* what the last read() returned: the pair, what the frame
               \* showed then, and what had been stored last by then
  npull        \* pulls made by the producer

pidVars == <<plog, npid>>
loopVars == <<program, cyc, ncyc>>
camVars == <<copies, cam_lock, cam_buf, heap, prod, rdr, got, npull>>

(***************************************************************************)
(* State of TrackingApp (core/app.py) beside its tracker and gimbal: the   *)
(* mailbox the API threads write and the loop reads; and of the inbound    *)
(* byte stream of the session's socket                                     *)
(***************************************************************************)
VARIABLES
  pending_tracker_init,  \* TrackingApp.pending_tracker_init: 0 (None, or
                         \* not set yet) or a selection request, numbered
                         \* in the order the requests are made
  lp,          \* the loop's thread: its position in a cycle, the request it
               \* hands to init, what update did and returned, and how many
               \* stopping calls had returned by then
  api,         \* the API calls made: their number, the requests made, the
               \* calls that stop the tracker returned, and the requests
               \* made before the last cancel
  hist,        \* what init applied last, the backend that made the handle,
               \* and who wrote the last command to the socket
  rx_buf,      \* the bytes the device has written and no recv has returned
  rx           \* the listener: the packets written whole by the device,
               \* the reads made and the packets handed to the callback

appVars == <<pending_tracker_init, lp, api, hist>>
rxVars == <<rx_buf, rx>>
lateVars == <<pidVars, loopVars, camVars, appVars, rxVars>>

otherVars == <<ctlVars, reqVars, trkVars, lateVars>>

protoVars == <<pkt, orig, tamper, parsed, nbuilds>>
connVars == <<socket, connected, heartbeat_running, receive_running,
              heartbeat_thread, receive_thread, th, owner, built, wire, link,
              dlog, ncalls>>
vars == <<sequence, pkt, orig, tamper, parsed, nbuilds, socket, connected,
          heartbeat_running, receive_running, heartbeat_thread, receive_thread,
          th, owner, built, wire, link, dlog, ncalls, otherVars>>

Threads == 0..MaxThreads
NoThread == [kind |-> "none", pc |-> "unborn", cmd |-> 0, seq |-> 0, nxt |-> 0,
             bi |-> 0]

\* SIYIConnection.__init__, and an application thread that has not called yet
ConnInit ==
  /\ socket = "None"
  /\ connected = FALSE
  /\ heartbeat_running = FALSE
  /\ receive_running = FALSE
  /\ heartbeat_thread = 0
  /\ receive_thread = 0
  /\ th = [t \in Threads |->
            IF t = 0 THEN [NoThread EXCEPT !.kind = "app", !.pc = "idle"]
            ELSE NoThread]
  /\ owner = [pc |-> "idle", last |-> "none"]
  /\ built = <<>>
  /\ wire = <<>>
  /\ link = "init"
  /\ dlog = <<>>
  /\ ncalls = 0

\* PIDController.__init__ with the gains g: prev_error = 0, integral = 0,
\* last_time = None (written -1)
PidNew(g) == [kp |-> g.kp, ki |-> g.ki, kd |-> g.kd, prev_error |-> 0,
              integral |-> 0, last_time |-> -1]

\* the process start: time.time() is far above move_interval
StartTime == 10

\* GimbalController.__init__, the axes configured with gains gy and gp
CtlInitWith(gy, gp) ==
  /\ gc_connected = FALSE
  /\ pid_yaw = PidNew(gy)
  /\ pid_pitch = PidNew(gp)
  /\ last_move_time = 0
  /\ now = StartTime
  /\ sock_out = [n |-> 0, last |-> <<>>]
  /\ ret = [op |-> "none", val |-> "None", open |-> FALSE]
  /\ ncmds = 0

NoGains == [kp |-> 0, ki |-> 0, kd |-> 0]

\* no getter called, the listener thread not started, nothing received
ReqFresh ==
  /\ inbox = <<>>
  /\ rq = [pc |-> "idle", calls |-> 0, n |-> 0, elapsed |-> 0, val |-> <<>>,
           arrived |-> FALSE]
  /\ lst = [pc |-> "none", sent_ok |-> 0, sent_bad |-> 0, good |-> 0,
            noise |-> 0, last |-> 0, why |-> "none"]
  /\ ndev = 0

\* ObjectTracker.__init__, apart from tracker_type and detector
TrkFresh ==
  /\ tracker = "None"
  /\ tracking_active = FALSE
  /\ tracked_id = 0
  /\ lock = 0
  /\ tk = [pc |-> "idle", dets |-> [n |-> 0, targets |-> <<>>]]
  /\ stp = "idle"
  /\ res = [op |-> "none", dets |-> [n |-> 0, targets |-> <<>>],
            active |-> FALSE, id |-> 0, ran |-> FALSE, success |-> FALSE,
            ok |-> FALSE, bbox |-> <<>>, algo |-> <<>>]
  /\ nops = 0

\* nothing returned yet by PIDController.update
NoLog == [error |-> 0, first |-> FALSE, dt |-> 0, before |-> 0, after |-> 0,
          d_num |-> 0, num |-> 0, den |-> 1, out |-> 0, calls |-> 0,
          cleared |-> 0]

PidFresh ==
  /\ plog = NoLog
  /\ npid = 0

\* no cycle of the loop yet
NoCycle == [kind |-> "none", ex |-> 0, ey |-> 0, yaw |-> 0, pitch |-> 0,
            due |-> FALSE, sent |-> FALSE, at |-> 0, prev |-> -1,
            last |-> -1, wrote |-> -1]

LoopFresh ==
  /\ cyc = NoCycle
  /\ ncyc = 0

\* Camera.__init__, LatestFrameReader.__init__: ret False, frame None
NoFrame == [ret |-> FALSE, frame |-> 0]

CamFresh ==
  /\ cam_lock = 0
  /\ cam_buf = NoFrame
  /\ heap = <<>>
  /\ prod = [pc |-> "pull", ret |-> FALSE, frame |-> 0, stores |-> 0,
             lret |-> FALSE, lpull |-> 0]
  /\ rdr = "idle"
  /\ got = [n |-> 0, ret |-> FALSE, frame |-> 0,
            seen |-> [pull |-> 0, drawn |-> FALSE], stores |-> 0,
            lret |-> FALSE, lpull |-> 0]
  /\ npull = 0

\* TrackingApp.__init__ (pending_tracker_init is not set there), the loop
\* not started, no API call made
AppFresh ==
  /\ pending_tracker_init = 0
  /\ lp = [pc |-> "top", req |-> 0, dets |-> [n |-> 0, targets |-> <<>>],
           ok |-> FALSE, path |-> "none", on |-> "none", gen |-> 0,
           error |-> <<0, 0>>, n |-> 0]
  /\ api = [n |-> 0, reqs |-> 0, stops |-> 0, cancels |-> 0, floor |-> 0]
  /\ hist = [applied |-> 0, made |-> "none", by |-> "none", stale |-> FALSE,
             dropped |-> 0]

\* nothing written by the device, nothing read
RxFresh ==
  /\ rx_buf = <<>>
  /\ rx = [whole |-> 0, reads |-> 0, handled |-> 0]

LateFresh ==
  /\ PidFresh
  /\ program = "app"
  /\ LoopFresh
  /\ copies = TRUE
  /\ CamFresh
  /\ AppFresh
  /\ RxFresh

OtherInit ==
  /\ CtlInitWith(NoGains, NoGains)
  /\ ReqFresh
  /\ tracker_type = "CSRT"
  /\ detector = FALSE
  /\ TrkFresh
  /\ LateFresh

(***************************************************************************)
(* The protocol engine on its own: one build, the packet possibly damaged  *)
(* on the way, one parse.                                                  *)
(***************************************************************************)
ProtoInit ==
  /\ sequence \in SeqStarts
  /\ pkt = <<>>
  /\ orig = <<>>
  /\ tamper = "none"
  /\ parsed = <<>>
  /\ nbuilds = 0
  /\ ConnInit
  /\ OtherInit

\* variant: _get_next_sequence returns the counter after incrementing it
Build_SeqAfterIncrement(cmd_id, data, need_ack) ==
  /\ pkt' = PackPacket(cmd_id, data, need_ack, NextSequence(sequence))
  /\ orig' = <<[cmd_id |-> cmd_id, data |-> data, need_ack |-> need_ack,
               seq |-> NextSequence(sequence)]>>
  /\ sequence' = NextSequence(sequence)
  /\ nbuilds' = nbuilds + 1
  /\ tamper' = "none"
  /\ parsed' = <<>>
  /\ UNCHANGED <<connVars, otherVars>>

\* build_packet(cmd_id, data, need_ack)
Build(cmd_id, data, need_ack) ==
  /\ pkt' = PackPacket(cmd_id, data, need_ack, sequence)
  /\ orig' = <<[cmd_id |-> cmd_id, data |-> data, need_ack |-> need_ack,
               seq |-> sequence]>>
  /\ sequence' = NextSequence(sequence)
  /\ nbuilds' = nbuilds + 1
  /\ tamper' = "none"
  /\ parsed' = <<>>
  /\ UNCHANGED <<connVars, otherVars>>

ProtoBuild ==
  /\ orig = <<>>
  /\ \E cmd_id \in CmdIds, data \in Payloads, need_ack \in BOOLEAN :
       Build(cmd_id, data, need_ack)

\* one bit of the built packet is inverted
ProtoFlip ==
  /\ orig # <<>> /\ tamper = "none" /\ parsed = <<>>
  /\ \E i \in 1..Len(pkt), k \in 0..7 : pkt' = FlipBit(pkt, i, k)
  /\ tamper' = "flip"
  /\ UNCHANGED <<sequence, orig, parsed, nbuilds>>
  /\ UNCHANGED <<connVars, otherVars>>

\* the last byte is lost (a short read); may repeat
ProtoTruncate ==
  /\ orig # <<>> /\ tamper \in {"none", "trunc"} /\ parsed = <<>>
  /\ Len(pkt) > 0
  /\ pkt' = SubSeq(pkt, 1, Len(pkt) - 1)
  /\ tamper' = "trunc"
  /\ UNCHANGED <<sequence, orig, parsed, nbuilds>>
  /\ UNCHANGED <<connVars, otherVars>>

\* a byte of the next packet follows in the same read
ProtoTrail ==
  /\ orig # <<>> /\ tamper = "none" /\ parsed = <<>>
  /\ \E b \in PayloadBytes : pkt' = Append(pkt, b)
  /\ tamper' = "trail"
  /\ UNCHANGED <<sequence, orig, parsed, nbuilds>>
  /\ UNCHANGED <<connVars, otherVars>>

\* the frame comes from a sender that uses another start marker (the two
\* marker bytes swapped) and has checksummed its own bytes consistently
ProtoForeign ==
  /\ orig # <<>> /\ tamper = "none" /\ parsed = <<>>
  /\ LET body == <<pkt[2], pkt[1]>> \o SubSeq(pkt, 3, Len(pkt) - 2)
     IN  pkt' = body \o PackU16(calculate_crc16(body))
  /\ tamper' = "foreign"
  /\ UNCHANGED <<sequence, orig, parsed, nbuilds>>
  /\ UNCHANGED <<connVars, otherVars>>

\* parse_packet(pkt)
ProtoParse ==
  /\ orig # <<>> /\ parsed = <<>>
  /\ parsed' = <<parse_packet(pkt)>>
  /\ UNCHANGED <<sequence, pkt, orig, tamper, nbuilds>>
  /\ UNCHANGED <<connVars, otherVars>>

ProtoNext ==
  \/ ProtoBuild
  \/ ProtoFlip
  \/ ProtoTruncate
  \/ ProtoTrail
  \/ ProtoForeign
  \/ ProtoParse

SpecProto == ProtoInit /\ [][ProtoNext]_vars

(***************************************************************************)
(* One fresh session building heartbeat after heartbeat.                   *)
(***************************************************************************)
SeqInit ==
  /\ sequence = 0
  /\ pkt = <<>>
  /\ orig = <<>>
  /\ tamper = "none"
  /\ parsed = <<>>
  /\ nbuilds = 0
  /\ ConnInit
  /\ OtherInit

SeqBuild ==
  /\ nbuilds < MaxSeqBuilds
  /\ Build(HEARTBEAT, <<0>>, FALSE)

SeqNext == SeqBuild

SpecSeq == SeqInit /\ [][SeqNext]_vars

(***************************************************************************)
(* The device link (siyi_connection.py). Every thread advances one         *)
(* statement at a time; nothing in the class takes a lock.                 *)
(***************************************************************************)
\* the send_packet calls made: by _heartbeat_loop and by SIYIGimbal.center
Calls ==
  <<[cmd_id |-> HEARTBEAT, data |-> <<0>>, need_ack |-> FALSE],
    [cmd_id |-> CENTER, data |-> <<1>>, need_ack |-> FALSE]>>

\* the bytes of a packet of built or wire
PacketOf(b) ==
  PackPacket(Calls[b.call].cmd_id, Calls[b.call].data, Calls[b.call].need_ack,
             b.seq)

\* threading.Thread.is_alive()
Alive(t) == th[t].kind \in {"hb", "rx"} /\ th[t].pc \notin {"exited", "crashed"}

Started == {t \in 1..MaxThreads : th[t].kind # "none"}
NewThread == Cardinality(Started) + 1

\* the model follows a new send_packet call only while fewer than MaxBuilds
\* packets are built or about to be
Sending == {t \in Threads : th[t].pc \in {"check", "read", "incr", "store"}}
BuildRoom == Len(built) + Cardinality(Sending) < MaxBuilds

\* where send_packet returns to: the heartbeat loop (time.sleep, then the
\* loop condition), or the application
ReturnPc(t) == IF th[t].kind = "hb" THEN "loop" ELSE "idle"

Returned(t) == [th[t] EXCEPT !.pc = ReturnPc(t), !.cmd = 0, !.seq = 0,
                              !.nxt = 0, !.bi = 0]

\* send_packet: if not self.connected or not self.socket: return False
SendCheck(t) ==
  /\ th[t].pc = "check"
  /\ th' = [th EXCEPT ![t] =
              IF ~connected \/ socket = "None" THEN Returned(t)
              ELSE [@ EXCEPT !.pc = "read"]]
  /\ UNCHANGED <<sequence, protoVars, otherVars, socket, connected, heartbeat_running,
                 receive_running, heartbeat_thread, receive_thread, owner,
                 built, wire, link, dlog, ncalls>>

\* _get_next_sequence: seq = self.sequence
SeqRead(t) ==
  /\ th[t].pc = "read"
  /\ th' = [th EXCEPT ![t] = [@ EXCEPT !.pc = "incr", !.seq = sequence]]
  /\ UNCHANGED <<sequence, protoVars, otherVars, socket, connected, heartbeat_running,
                 receive_running, heartbeat_thread, receive_thread, owner,
                 built, wire, link, dlog, ncalls>>

\* _get_next_sequence: the right-hand side (self.sequence + 1) % 65536
SeqIncr(t) ==
  /\ th[t].pc = "incr"
  /\ th' = [th EXCEPT ![t] = [@ EXCEPT !.pc = "store",
                                       !.nxt = NextSequence(sequence)]]
  /\ UNCHANGED <<sequence, protoVars, otherVars, socket, connected, heartbeat_running,
                 receive_running, heartbeat_thread, receive_thread, owner,
                 built, wire, link, dlog, ncalls>>

\* _get_next_sequence: the store to self.sequence and return seq; then the
\* rest of build_packet, which works on locals only
SeqStore(t) ==
  /\ th[t].pc = "store"
  /\ sequence' = th[t].nxt
  /\ built' = Append(built, [call |-> th[t].cmd, seq |-> th[t].seq])
  /\ th' = [th EXCEPT ![t] = [@ EXCEPT !.pc = "sendall", !.seq = 0, !.nxt = 0,
                                       !.bi = Len(built) + 1]]
  /\ UNCHANGED <<protoVars, otherVars, socket, connected, heartbeat_running,
                 receive_running, heartbeat_thread, receive_thread, owner,
                 wire, link, dlog, ncalls>>

\* send_packet: self.socket.sendall(packet); return True
SendAllOk(t) ==
  /\ th[t].pc = "sendall"
  /\ socket = "open"
  /\ wire' = Append(wire, built[th[t].bi])
  /\ th' = [th EXCEPT ![t] = Returned(t)]
  /\ UNCHANGED <<sequence, protoVars, otherVars, socket, connected, heartbeat_running,
                 receive_running, heartbeat_thread, receive_thread, owner,
                 built, link, dlog, ncalls>>

\* send_packet: sendall raises (the socket is None, closed or not
\* connected); except Exception: return False
SendAllRaises(t) ==
  /\ th[t].pc = "sendall"
  /\ socket # "open"
  /\ th' = [th EXCEPT ![t] = Returned(t)]
  /\ UNCHANGED <<sequence, protoVars, otherVars, socket, connected, heartbeat_running,
                 receive_running, heartbeat_thread, receive_thread, owner,
                 built, wire, link, dlog, ncalls>>

\* the application thread calls send_packet(cmd_id, data, need_ack)
AppSend ==
  /\ th[0].pc = "idle"
  /\ BuildRoom
  /\ \E c \in 2..Len(Calls) :
       th' = [th EXCEPT ![0] = [@ EXCEPT !.pc = "check", !.cmd = c]]
  /\ UNCHANGED <<sequence, protoVars, otherVars, socket, connected, heartbeat_running,
                 receive_running, heartbeat_thread, receive_thread, owner,
                 built, wire, link, dlog, ncalls>>

\* _heartbeat_loop: while self.heartbeat_running and self.connected:
\*     self.send_packet(Commands.HEARTBEAT, b'\x00'); time.sleep(...)
HeartbeatLoop(t) ==
  /\ th[t].kind = "hb" /\ th[t].pc = "loop"
  /\ IF heartbeat_running /\ connected
     THEN /\ BuildRoom
          /\ th' = [th EXCEPT ![t] = [@ EXCEPT !.pc = "check", !.cmd = 1]]
     ELSE th' = [th EXCEPT ![t] = [@ EXCEPT !.pc = "exited"]]
  /\ UNCHANGED <<sequence, protoVars, otherVars, socket, connected, heartbeat_running,
                 receive_running, heartbeat_thread, receive_thread, owner,
                 built, wire, link, dlog, ncalls>>

\* _receive_loop: while self.receive_running and self.connected:
ReceiveLoop(t) ==
  /\ th[t].kind = "rx" /\ th[t].pc = "loop"
  /\ th' = [th EXCEPT ![t] =
              [@ EXCEPT !.pc = IF receive_running /\ connected
                               THEN "recv" ELSE "exited"]]
  /\ UNCHANGED <<sequence, protoVars, otherVars, socket, connected, heartbeat_running,
                 receive_running, heartbeat_thread, receive_thread, owner,
                 built, wire, link, dlog, ncalls>>

\* _receive_loop: the body went round: no socket, socket.timeout, no data,
\* or data parsed and handed to the callback
ReceiveRound(t) ==
  /\ th[t].kind = "rx" /\ th[t].pc = "recv"
  /\ socket \in {"None", "open"}
  /\ th' = [th EXCEPT ![t] = [@ EXCEPT !.pc = "loop"]]
  /\ UNCHANGED <<sequence, protoVars, otherVars, socket, connected, heartbeat_running,
                 receive_running, heartbeat_thread, receive_thread, owner,
                 built, wire, link, dlog, ncalls>>

\* _receive_loop: settimeout or recv raises another exception: break
ReceiveRaises(t) ==
  /\ th[t].kind = "rx" /\ th[t].pc = "recv"
  /\ socket \in {"unconnected", "open"}
  /\ th' = [th EXCEPT ![t] = [@ EXCEPT !.pc = "crashed"]]
  /\ UNCHANGED <<sequence, protoVars, otherVars, socket, connected, heartbeat_running,
                 receive_running, heartbeat_thread, receive_thread, owner,
                 built, wire, link, dlog, ncalls>>

\* connect: self.socket = socket.socket(...)
ConnectBegin ==
  /\ owner.pc = "idle"
  /\ ncalls < MaxCalls
  /\ Cardinality(Started) + 2 <= MaxThreads
  /\ ncalls' = ncalls + 1
  /\ socket' = "unconnected"
  /\ owner' = [owner EXCEPT !.pc = "c_connect"]
  /\ UNCHANGED <<sequence, protoVars, otherVars, connected, heartbeat_running,
                 receive_running, heartbeat_thread, receive_thread, th,
                 built, wire, link, dlog>>

\* connect: self.socket.connect(...) succeeds; self.connected = True
ConnectOk ==
  /\ owner.pc = "c_connect"
  /\ socket' = "open"
  /\ connected' = TRUE
  /\ owner' = [owner EXCEPT !.pc = "c_rx"]
  /\ UNCHANGED <<sequence, protoVars, otherVars, heartbeat_running, receive_running,
                 heartbeat_thread, receive_thread, th, built, wire, link,
                 dlog, ncalls>>

\* connect: self.socket.connect(...) raises; self.connected = False;
\* return False
ConnectFails ==
  /\ owner.pc = "c_connect"
  /\ connected' = FALSE
  /\ link' = "failed"
  /\ owner' = [pc |-> "idle", last |-> "connect_failed"]
  /\ UNCHANGED <<sequence, protoVars, otherVars, socket, heartbeat_running,
                 receive_running, heartbeat_thread, receive_thread, th,
                 built, wire, dlog, ncalls>>

\* _start_receive_thread
StartReceiveThread ==
  /\ owner.pc = "c_rx"
  /\ IF ~receive_running
     THEN /\ receive_running' = TRUE
          /\ receive_thread' = NewThread
          /\ th' = [th EXCEPT ![NewThread] =
                      [NoThread EXCEPT !.kind = "rx", !.pc = "loop"]]
     ELSE UNCHANGED <<receive_running, receive_thread, th>>
  /\ owner' = [owner EXCEPT !.pc = "c_hb"]
  /\ UNCHANGED <<sequence, protoVars, otherVars, socket, connected, heartbeat_running,
                 heartbeat_thread, built, wire, link, dlog, ncalls>>

\* start_heartbeat; connect returns True
StartHeartbeat ==
  /\ owner.pc = "c_hb"
  /\ IF ~heartbeat_running
     THEN /\ heartbeat_running' = TRUE
          /\ heartbeat_thread' = NewThread
          /\ th' = [th EXCEPT ![NewThread] =
                      [NoThread EXCEPT !.kind = "hb", !.pc = "loop"]]
     ELSE UNCHANGED <<heartbeat_running, heartbeat_thread, th>>
  /\ link' = "up"
  /\ owner' = [pc |-> "idle", last |-> "connect_ok"]
  /\ UNCHANGED <<sequence, protoVars, otherVars, socket, connected, receive_running,
                 receive_thread, built, wire, dlog, ncalls>>

\* variant: disconnect closes the socket first, then stops the tasks
StopHeartbeat_ClosesFirst ==
  /\ owner.pc = "idle"
  /\ ncalls < MaxCalls
  /\ ncalls' = ncalls + 1
  /\ link' = "down"
  /\ heartbeat_running' = FALSE
  /\ socket' = "None"
  /\ IF heartbeat_thread # 0
     THEN /\ dlog' = <<"close", "hb_flag", "hb_join_call">>
          /\ owner' = [owner EXCEPT !.pc = "d_hb_join"]
     ELSE /\ dlog' = <<"close", "hb_flag">>
          /\ owner' = [owner EXCEPT !.pc = "d_rx"]
  /\ UNCHANGED <<sequence, protoVars, otherVars, connected, receive_running,
                 heartbeat_thread, receive_thread, th, built, wire>>

\* disconnect -> stop_heartbeat: self.heartbeat_running = False;
\* if self.heartbeat_thread: join(timeout=2.0) is called
StopHeartbeat ==
  /\ owner.pc = "idle"
  /\ ncalls < MaxCalls
  /\ ncalls' = ncalls + 1
  /\ link' = "down"
  /\ heartbeat_running' = FALSE
  /\ IF heartbeat_thread # 0
     THEN /\ dlog' = <<"hb_flag", "hb_join_call">>
          /\ owner' = [owner EXCEPT !.pc = "d_hb_join"]
     ELSE /\ dlog' = <<"hb_flag">>
          /\ owner' = [owner EXCEPT !.pc = "d_rx"]
  /\ UNCHANGED <<sequence, protoVars, otherVars, socket, connected, receive_running,
                 heartbeat_thread, receive_thread, th, built, wire>>

\* stop_heartbeat: join returns because the thread has ended;
\* self.heartbeat_thread = None
JoinHeartbeat ==
  /\ owner.pc = "d_hb_join"
  /\ ~Alive(heartbeat_thread)
  /\ heartbeat_thread' = 0
  /\ dlog' = Append(dlog, "hb_join_ret")
  /\ owner' = [owner EXCEPT !.pc = "d_rx"]
  /\ UNCHANGED <<sequence, protoVars, otherVars, socket, connected, heartbeat_running,
                 receive_running, receive_thread, th, built, wire, link,
                 ncalls>>

\* stop_heartbeat: join returns because 2.0 s have passed, the thread still
\* running; self.heartbeat_thread = None
JoinHeartbeatTimeout ==
  /\ owner.pc = "d_hb_join"
  /\ Alive(heartbeat_thread)
  /\ heartbeat_thread' = 0
  /\ dlog' = Append(dlog, "hb_join_ret")
  /\ owner' = [owner EXCEPT !.pc = "d_rx"]
  /\ UNCHANGED <<sequence, protoVars, otherVars, socket, connected, heartbeat_running,
                 receive_running, receive_thread, th, built, wire, link,
                 ncalls>>

\* disconnect -> _stop_receive_thread: self.receive_running = False;
\* if self.receive_thread: join(timeout=2.0) is called
StopReceiveThread ==
  /\ owner.pc = "d_rx"
  /\ receive_running' = FALSE
  /\ IF receive_thread # 0
     THEN /\ dlog' = dlog \o <<"rx_flag", "rx_join_call">>
          /\ owner' = [owner EXCEPT !.pc = "d_rx_join"]
     ELSE /\ dlog' = Append(dlog, "rx_flag")
          /\ owner' = [owner EXCEPT !.pc = "d_close"]
  /\ UNCHANGED <<sequence, protoVars, otherVars, socket, connected, heartbeat_running,
                 heartbeat_thread, receive_thread, th, built, wire, link,
                 ncalls>>

\* _stop_receive_thread: join returns, the thread ended;
\* self.receive_thread = None
JoinReceive ==
  /\ owner.pc = "d_rx_join"
  /\ ~Alive(receive_thread)
  /\ receive_thread' = 0
  /\ dlog' = Append(dlog, "rx_join_ret")
  /\ owner' = [owner EXCEPT !.pc = "d_close"]
  /\ UNCHANGED <<sequence, protoVars, otherVars, socket, connected, heartbeat_running,
                 receive_running, heartbeat_thread, th, built, wire, link,
                 ncalls>>

\* _stop_receive_thread: join returns after 2.0 s, the thread still running;
\* self.receive_thread = None
JoinReceiveTimeout ==
  /\ owner.pc = "d_rx_join"
  /\ Alive(receive_thread)
  /\ receive_thread' = 0
  /\ dlog' = Append(dlog, "rx_join_ret")
  /\ owner' = [owner EXCEPT !.pc = "d_close"]
  /\ UNCHANGED <<sequence, protoVars, otherVars, socket, connected, heartbeat_running,
                 receive_running, heartbeat_thread, th, built, wire, link,
                 ncalls>>

\* disconnect: if self.socket: self.socket.close(); self.socket = None
CloseSocket ==
  /\ owner.pc = "d_close"
  /\ IF socket # "None"
     THEN /\ socket' = "None"
          /\ dlog' = Append(dlog, "close")
     ELSE UNCHANGED <<socket, dlog>>
  /\ owner' = [owner EXCEPT !.pc = "d_fin"]
  /\ UNCHANGED <<sequence, protoVars, otherVars, connected, heartbeat_running,
                 receive_running, heartbeat_thread, receive_thread, th,
                 built, wire, link, ncalls>>

\* disconnect: self.connected = False; return
DisconnectReturns ==
  /\ owner.pc = "d_fin"
  /\ connected' = FALSE
  /\ dlog' = <<>>
  /\ owner' = [pc |-> "idle", last |-> "disconnect"]
  /\ UNCHANGED <<sequence, protoVars, otherVars, socket, heartbeat_running,
                 receive_running, heartbeat_thread, receive_thread, th,
                 built, wire, link, ncalls>>

Init ==
  /\ sequence = 0
  /\ pkt = <<>>
  /\ orig = <<>>
  /\ tamper = "none"
  /\ parsed = <<>>
  /\ nbuilds = 0
  /\ ConnInit
  /\ OtherInit

Next ==
  \/ ConnectBegin
  \/ ConnectOk
  \/ ConnectFails
  \/ StartReceiveThread
  \/ StartHeartbeat
  \/ StopHeartbeat
  \/ JoinHeartbeat
  \/ JoinHeartbeatTimeout
  \/ StopReceiveThread
  \/ JoinReceive
  \/ JoinReceiveTimeout
  \/ CloseSocket
  \/ DisconnectReturns
  \/ AppSend
  \/ \E t \in Threads : SendCheck(t)
  \/ \E t \in Threads : SeqRead(t)
  \/ \E t \in Threads : SeqIncr(t)
  \/ \E t \in Threads : SeqStore(t)
  \/ \E t \in Threads : SendAllOk(t)
  \/ \E t \in Threads : SendAllRaises(t)
  \/ \E t \in Threads : HeartbeatLoop(t)
  \/ \E t \in Threads : ReceiveLoop(t)
  \/ \E t \in Threads : ReceiveRound(t)
  \/ \E t \in Threads : ReceiveRaises(t)

Spec == Init /\ [][Next]_vars

\* a step of thread t, in _heartbeat_loop, _receive_loop or send_packet
ThreadStep(t) ==
  \/ HeartbeatLoop(t)
  \/ ReceiveLoop(t)
  \/ ReceiveRound(t)
  \/ ReceiveRaises(t)
  \/ SendCheck(t)
  \/ SeqRead(t)
  \/ SeqIncr(t)
  \/ SeqStore(t)
  \/ SendAllOk(t)
  \/ SendAllRaises(t)

\* a step of disconnect() after its first
DisconnectStep ==
  \/ JoinHeartbeat
  \/ JoinHeartbeatTimeout
  \/ StopReceiveThread
  \/ JoinReceive
  \/ JoinReceiveTimeout
  \/ CloseSocket
  \/ DisconnectReturns

\* every thread that can take a step is scheduled in the end, and a
\* disconnect() begun runs to its return
SpecLinkLive ==
  /\ Init
  /\ [][Next]_vars
  /\ \A t \in 1..MaxThreads : WF_vars(ThreadStep(t))
  /\ WF_vars(DisconnectStep)

(***************************************************************************)
(* The command facade and the gimbal controller (siyi_gimbal.py,           *)
(* siyi_zoom.py, siyi_capture.py, gimbal.py, pid.py): one caller and the   *)
(* heartbeat thread, every call running to its return in one step.         *)
(***************************************************************************)
\* cfg.get("gimbal.deadzone", 20), in pixels
Deadzone == 20
\* cfg.get("gimbal.move_interval", 0.05), in ticks of 10 ms
MoveInterval == 5
\* the clock advances 60 ms at a time
TickStep == 6
\* the limits of PIDController's output and of SIYIGimbal.rotate's clamp
MinOut == -100
MaxOut == 100

\* a number a caller passes as a speed: the integer v, or the float v + 0.5
Whole(v) == [whole |-> TRUE, v |-> v]
Half(v) == [whole |-> FALSE, v |-> v]
Speeds == {Whole(-101), Whole(127), Half(1)}
\* pixel errors (error_x, error_y) handed to update_tracking
Errors == {<<-400, 25>>, <<0, 0>>, <<25, -400>>}
\* gains kp, ki, kd of the axes, in hundredths
GainSets == {[kp |-> 200, ki |-> 50, kd |-> 10]}

Abs(x) == IF x < 0 THEN -x ELSE x

\* variant: rotate passes the speeds on as they come
Clamp_None(a) == a

\* max(-100, min(100, a)) of SIYIGimbal.rotate
Clamp(a) ==
  IF a.whole
  THEN Whole(IF a.v > MaxOut THEN MaxOut ELSE IF a.v < MinOut THEN MinOut ELSE a.v)
  ELSE IF a.v >= MaxOut THEN Whole(MaxOut)
       ELSE IF a.v < MinOut THEN Whole(MinOut)
       ELSE a

\* struct.pack('b', v) and its inverse; v outside -128..127 raises
FitsI8(v) == v >= -128 /\ v <= 127
PackI8(v) == IF v >= 0 THEN v ELSE v + 256
UnpackI8(b) == IF b >= 128 THEN b - 256 ELSE b

\* int(q) of the quotient num/den, den > 0: truncation towards zero
IntOf(num, den) == IF num >= 0 THEN num \div den ELSE -((-num) \div den)

\* PIDController.reset
PidReset(pid) == [pid EXCEPT !.prev_error = 0, !.integral = 0, !.last_time = -1]

\* variant: the output is returned as computed, not brought into the limits
PidUpdate_NoLimits(pid, error, t) ==
  LET dt == IF pid.last_time = -1 THEN 0 ELSE t - pid.last_time
      integral == pid.integral + error * dt
      d_num == IF dt > 0 THEN pid.kd * (error - pid.prev_error) * 10000 ELSE 0
      num == IF dt > 0
             THEN pid.kp * error * 100 * dt + pid.ki * integral * dt + d_num
             ELSE pid.kp * error * 100 + pid.ki * integral
      den == IF dt > 0 THEN 10000 * dt ELSE 10000
      cnum == num
  IN [pid |-> [pid EXCEPT !.prev_error = error, !.integral = integral,
                          !.last_time = t],
      dt |-> dt, d_num |-> d_num, num |-> cnum, den |-> den,
      out |-> IntOf(cnum, den)]

\* variant: the first update takes one tick for dt
PidUpdate_FirstDtOne(pid, error, t) ==
  LET dt == IF pid.last_time = -1 THEN 1 ELSE t - pid.last_time
      integral == pid.integral + error * dt
      d_num == IF dt > 0 THEN pid.kd * (error - pid.prev_error) * 10000 ELSE 0
      num == IF dt > 0
             THEN pid.kp * error * 100 * dt + pid.ki * integral * dt + d_num
             ELSE pid.kp * error * 100 + pid.ki * integral
      den == IF dt > 0 THEN 10000 * dt ELSE 10000
      cnum == IF num > MaxOut * den THEN MaxOut * den
              ELSE IF num < MinOut * den THEN MinOut * den
              ELSE num
  IN [pid |-> [pid EXCEPT !.prev_error = error, !.integral = integral,
                          !.last_time = t],
      dt |-> dt, d_num |-> d_num, num |-> cnum, den |-> den,
      out |-> IntOf(cnum, den)]

\* PIDController.update(error) at time t: the new state, the dt used, the
\* value returned max(min(output, 100), -100) as the fraction num/den, and
\* out, that value as the caller's int() sees it. integral is kept in
\* pixel-ticks, the terms are brought to the denominator 10000 * dt (d_num
\* is the derivative term's share of the numerator).
PidUpdate(pid, error, t) ==
  LET dt == IF pid.last_time = -1 THEN 0 ELSE t - pid.last_time
      integral == pid.integral + error * dt
      d_num == IF dt > 0 THEN pid.kd * (error - pid.prev_error) * 10000 ELSE 0
      num == IF dt > 0
             THEN pid.kp * error * 100 * dt + pid.ki * integral * dt + d_num
             ELSE pid.kp * error * 100 + pid.ki * integral
      den == IF dt > 0 THEN 10000 * dt ELSE 10000
      cnum == IF num > MaxOut * den THEN MaxOut * den
              ELSE IF num < MinOut * den THEN MinOut * den
              ELSE num
  IN [pid |-> [pid EXCEPT !.prev_error = error, !.integral = integral,
                          !.last_time = t],
      dt |-> dt, d_num |-> d_num, num |-> cnum, den |-> den,
      out |-> IntOf(cnum, den)]

NoSession == ~connected \/ socket = "None"

\* what a call leaves behind: the counter, the bytes written, the value
Effect(seq, out, val) == [sequence |-> seq, out |-> out, val |-> val]

\* variant: send_packet without its check of connected and socket
SendEffect_NoCheck(cmd_id, data, need_ack, ok) ==
  IF ok /\ connected /\ socket = "open"
  THEN Effect(NextSequence(sequence),
              [n |-> sock_out.n + 1,
               last |-> <<[cmd_id |-> cmd_id, data |-> data,
                           need_ack |-> need_ack, seq |-> sequence]>>], "True")
  ELSE Effect(NextSequence(sequence), sock_out, "False")

\* send_packet(cmd_id, data, need_ack): False when there is no session;
\* otherwise the packet is built, and sendall writes it (ok) or raises
SendEffect(cmd_id, data, need_ack, ok) ==
  IF NoSession THEN Effect(sequence, sock_out, "False")
  ELSE IF ok /\ socket = "open"
  THEN Effect(NextSequence(sequence),
              [n |-> sock_out.n + 1,
               last |-> <<[cmd_id |-> cmd_id, data |-> data,
                           need_ack |-> need_ack, seq |-> sequence]>>], "True")
  ELSE Effect(NextSequence(sequence), sock_out, "False")

\* SIYIGimbal.rotate(yaw, pitch)
RotateEffect(yaw, pitch, ok) ==
  LET y == Clamp(yaw)
      p == Clamp(pitch)
  IN IF ~y.whole \/ ~p.whole \/ ~FitsI8(y.v) \/ ~FitsI8(p.v)
     THEN Effect(sequence, sock_out, "raises")
     ELSE SendEffect(GIMBAL_ROTATION, <<PackI8(y.v), PackI8(p.v)>>, FALSE, ok)

\* the call op(args) has run with effect e
Called(op, e) ==
  /\ sequence' = e.sequence
  /\ sock_out' = e.out
  /\ ret' = [op |-> op, val |-> e.val, open |-> ~NoSession]
  /\ ncmds' = ncmds + 1

\* a GimbalController method that starts with `if not self.connected: return`
\* (val None) or `return False`
Guarded(op, val, e) ==
  Called(op, IF gc_connected THEN e ELSE Effect(sequence, sock_out, val))

CmdRest == <<protoVars, socket, connected, heartbeat_running, receive_running,
             heartbeat_thread, receive_thread, th, owner, built, wire, link,
             dlog, ncalls, reqVars, trkVars, lateVars>>

\* GimbalController.connect, the session connecting: the threads are started
\* unless their flags are already set
GcConnectOk ==
  /\ ncalls < MaxSessions
  /\ ncalls' = ncalls + 1
  /\ socket' = "open"
  /\ connected' = TRUE
  /\ receive_running' = TRUE
  /\ receive_thread' = IF receive_running THEN receive_thread ELSE 1
  /\ heartbeat_running' = TRUE
  /\ heartbeat_thread' = IF heartbeat_running THEN heartbeat_thread ELSE 2
  /\ gc_connected' = TRUE
  /\ link' = "up"
  /\ UNCHANGED <<sequence, protoVars, th, owner, built, wire, dlog, pid_yaw,
                 pid_pitch, last_move_time, now, sock_out, ret, ncmds, reqVars,
                 trkVars, lateVars>>

\* GimbalController.connect, socket.connect raising
GcConnectFails ==
  /\ ncalls < MaxSessions
  /\ ncalls' = ncalls + 1
  /\ socket' = "unconnected"
  /\ connected' = FALSE
  /\ gc_connected' = FALSE
  /\ link' = "failed"
  /\ UNCHANGED <<sequence, protoVars, heartbeat_running, receive_running,
                 heartbeat_thread, receive_thread, th, owner, built, wire,
                 dlog, pid_yaw, pid_pitch, last_move_time, now, sock_out, ret,
                 ncmds, reqVars, trkVars, lateVars>>

\* GimbalController.disconnect
GcDisconnect ==
  /\ ncalls < MaxSessions
  /\ ncalls' = ncalls + 1
  /\ heartbeat_running' = FALSE
  /\ heartbeat_thread' = 0
  /\ receive_running' = FALSE
  /\ receive_thread' = 0
  /\ socket' = "None"
  /\ connected' = FALSE
  /\ gc_connected' = FALSE
  /\ link' = "down"
  /\ UNCHANGED <<sequence, protoVars, th, owner, built, wire, dlog, pid_yaw,
                 pid_pitch, last_move_time, now, sock_out, ret, ncmds, reqVars,
                 trkVars, lateVars>>

\* one round of _heartbeat_loop in a started heartbeat thread (followed
\* while fewer than MaxCmds packets were built)
CmdHeartbeat ==
  /\ heartbeat_thread # 0 /\ heartbeat_running /\ connected
  /\ sequence < MaxCmds
  /\ \E ok \in BOOLEAN :
       LET e == SendEffect(HEARTBEAT, <<0>>, FALSE, ok)
       IN sequence' = e.sequence /\ sock_out' = e.out
  /\ UNCHANGED <<CmdRest, gc_connected, pid_yaw, pid_pitch, last_move_time,
                 now, ret, ncmds>>

\* time passes: 60 ms between one command and the next
CmdTick ==
  /\ ncmds < MaxCmds
  /\ now < StartTime + ncmds * TickStep
  /\ now' = now + TickStep
  /\ UNCHANGED <<sequence, CmdRest, gc_connected, pid_yaw, pid_pitch,
                 last_move_time, sock_out, ret, ncmds>>

CtlSame == <<CmdRest, gc_connected, pid_yaw, pid_pitch, last_move_time, now>>

\* SIYIConnection.send_packet called directly, as the getters do
CmdSend ==
  /\ ncmds < MaxCmds
  /\ \E ok \in BOOLEAN :
       Called("send", SendEffect(STATUS_INFO, <<>>, TRUE, ok))
  /\ UNCHANGED CtlSame

\* GimbalController.center: center_gimbal, then both PIDs reset
GcCenter ==
  /\ ncmds < MaxCmds
  /\ \E ok \in BOOLEAN :
       Guarded("center", "None",
               [SendEffect(CENTER, <<1>>, FALSE, ok) EXCEPT !.val = "None"])
  /\ pid_yaw' = IF gc_connected THEN PidReset(pid_yaw) ELSE pid_yaw
  /\ pid_pitch' = IF gc_connected THEN PidReset(pid_pitch) ELSE pid_pitch
  /\ UNCHANGED <<CmdRest, gc_connected, last_move_time, now>>

\* GimbalController.stop: rotate_gimbal(0, 0), nothing returned
GcStop ==
  /\ ncmds < MaxCmds
  /\ \E ok \in BOOLEAN :
       Guarded("stop", "None",
               [RotateEffect(Whole(0), Whole(0), ok) EXCEPT !.val = "None"])
  /\ UNCHANGED CtlSame

\* GimbalController.stop_gimbal
GcStopGimbal ==
  /\ ncmds < MaxCmds
  /\ \E ok \in BOOLEAN :
       Guarded("stop_gimbal", "False",
               RotateEffect(Whole(0), Whole(0), ok))
  /\ UNCHANGED CtlSame

\* GimbalController.move_gimbal(yaw_speed, pitch_speed): the directional
\* nudges of the API and any other caller
GcMoveGimbal ==
  /\ ncmds < MaxCmds
  /\ \E yaw \in Speeds, pitch \in Speeds, ok \in BOOLEAN :
       Guarded("move_gimbal", "False",
               RotateEffect(yaw, pitch, ok))
  /\ UNCHANGED CtlSame

\* GimbalController.update_tracking(error_x, error_y)
GcUpdateTracking ==
  /\ ncmds < MaxCmds
  /\ \E error \in Errors, ok \in BOOLEAN :
       LET error_x == error[1]
           error_y == error[2]
           uy == PidUpdate(pid_yaw, error_x, now)
           up == PidUpdate(pid_pitch, -error_y, now)
           yaw_speed == IF Abs(error_x) > Deadzone THEN uy.out ELSE 0
           pitch_speed == IF Abs(error_y) > Deadzone THEN up.out ELSE 0
           due == now - last_move_time > MoveInterval
       IN IF ~gc_connected
          THEN /\ Called("update_tracking",
                         Effect(sequence, sock_out, "None"))
               /\ UNCHANGED <<pid_yaw, pid_pitch, last_move_time>>
          ELSE /\ pid_yaw' = IF Abs(error_x) > Deadzone THEN uy.pid
                             ELSE PidReset(pid_yaw)
               /\ pid_pitch' = IF Abs(error_y) > Deadzone THEN up.pid
                               ELSE PidReset(pid_pitch)
               /\ Called("update_tracking",
                         IF due
                         THEN [RotateEffect(Whole(yaw_speed),
                                            Whole(pitch_speed), ok)
                                 EXCEPT !.val = "speeds"]
                         ELSE Effect(sequence, sock_out, "speeds"))
               /\ last_move_time' = IF due THEN now ELSE last_move_time
  /\ UNCHANGED <<CmdRest, gc_connected, now>>

\* GimbalController.zoom_in: MANUAL_ZOOM with payload 01
GcZoomIn ==
  /\ ncmds < MaxCmds
  /\ \E ok \in BOOLEAN :
       Guarded("zoom_in", "False", SendEffect(MANUAL_ZOOM, <<1>>, FALSE, ok))
  /\ UNCHANGED CtlSame

\* GimbalController.zoom_out: MANUAL_ZOOM with payload ff
GcZoomOut ==
  /\ ncmds < MaxCmds
  /\ \E ok \in BOOLEAN :
       Guarded("zoom_out", "False",
               SendEffect(MANUAL_ZOOM, <<255>>, FALSE, ok))
  /\ UNCHANGED CtlSame

\* GimbalController.stop_zoom: MANUAL_ZOOM with payload 00
GcStopZoom ==
  /\ ncmds < MaxCmds
  /\ \E ok \in BOOLEAN :
       Guarded("stop_zoom", "False",
               SendEffect(MANUAL_ZOOM, <<0>>, FALSE, ok))
  /\ UNCHANGED CtlSame

\* GimbalController.take_photo: CAPTURE_MODE with payload 00
GcTakePhoto ==
  /\ ncmds < MaxCmds
  /\ \E ok \in BOOLEAN :
       Guarded("take_photo", "False",
               SendEffect(CAPTURE_MODE, <<0>>, FALSE, ok))
  /\ UNCHANGED CtlSame

\* GimbalController.toggle_recording: CAPTURE_MODE with payload 02
GcToggleRecording ==
  /\ ncmds < MaxCmds
  /\ \E ok \in BOOLEAN :
       Guarded("toggle_recording", "False",
               SendEffect(CAPTURE_MODE, <<2>>, FALSE, ok))
  /\ UNCHANGED CtlSame

CmdInit ==
  /\ sequence = 0
  /\ pkt = <<>>
  /\ orig = <<>>
  /\ tamper = "none"
  /\ parsed = <<>>
  /\ nbuilds = 0
  /\ ConnInit
  /\ \E g \in GainSets : CtlInitWith(g, g)
  /\ ReqFresh
  /\ tracker_type = "CSRT"
  /\ detector = FALSE
  /\ TrkFresh
  /\ LateFresh

CmdNext ==
  \/ GcConnectOk
  \/ GcConnectFails
  \/ GcDisconnect
  \/ CmdHeartbeat
  \/ CmdTick
  \/ CmdSend
  \/ GcCenter
  \/ GcStop
  \/ GcStopGimbal
  \/ GcMoveGimbal
  \/ GcUpdateTracking
  \/ GcZoomIn
  \/ GcZoomOut
  \/ GcStopZoom
  \/ GcTakePhoto
  \/ GcToggleRecording

SpecCmd == CmdInit /\ [][CmdNext]_vars

(***************************************************************************)
(* A telemetry getter (siyi_gimbal.py get_attitude) polling the socket     *)
(* with receive_packet while the listener thread (_receive_loop) reads the *)
(* same socket. Time is counted in tenths of a second.                     *)
(***************************************************************************)
\* get_attitude(timeout=2.0)
Timeout == 20
\* receive_packet(timeout=0.5)
RecvTimeout == 5
\* time.sleep(0.1)
PollSleep == 1

\* what the device sends: an attitude reply (yaw 1.0, pitch -2.0, roll 0),
\* a status reply, the attitude reply with a payload bit inverted, and the
\* attitude reply cut short after nine bytes
AttitudeReply == PackPacket(ATTITUDE_DATA, <<10, 0, 236, 255, 0, 0>>, FALSE, 0)
DeviceFrames ==
  <<AttitudeReply,
    PackPacket(STATUS_INFO, <<1>>, FALSE, 0),
    FlipBit(AttitudeReply, 9, 0),
    SubSeq(AttitudeReply, 1, 9)>>
\* whether the device sent the frame well-formed
WellFormed == <<TRUE, TRUE, FALSE, FALSE>>
\* parse_packet(data) for each of them
ParsedFrames == [f \in 1..Len(DeviceFrames) |-> parse_packet(DeviceFrames[f])]

Empty == <<[kind |-> "empty", f |-> 0, epoch |-> 0]>>
Response(m) == <<[kind |-> "response", f |-> m.f, epoch |-> m.epoch]>>

ReqRest == <<protoVars, ctlVars, trkVars, lateVars, th, owner, built, wire, dlog, ncalls>>
ReqSession == <<socket, connected, heartbeat_running, receive_running,
                heartbeat_thread, receive_thread, link>>

\* connect() succeeding on a fresh session; the listener thread starts (the
\* heartbeat thread's packets are not followed here)
ReqConnect ==
  /\ link = "init"
  /\ socket' = "open"
  /\ connected' = TRUE
  /\ receive_running' = TRUE
  /\ receive_thread' = 1
  /\ heartbeat_running' = TRUE
  /\ heartbeat_thread' = 2
  /\ link' = "up"
  /\ lst' = [lst EXCEPT !.pc = "loop"]
  /\ UNCHANGED <<sequence, ReqRest, inbox, rq, ndev>>

\* disconnect()
ReqDisconnect ==
  /\ link = "up"
  /\ heartbeat_running' = FALSE
  /\ heartbeat_thread' = 0
  /\ receive_running' = FALSE
  /\ receive_thread' = 0
  /\ socket' = "None"
  /\ connected' = FALSE
  /\ link' = "down"
  /\ UNCHANGED <<sequence, ReqRest, reqVars>>

\* the device sends a frame; it waits in the socket's buffer
DeviceSend ==
  /\ ndev < MaxFrames
  /\ ~NoSession
  /\ \E f \in 1..Len(DeviceFrames) :
       /\ inbox' = Append(inbox, [f |-> f, epoch |-> rq.n])
       /\ rq' = [rq EXCEPT !.arrived =
                   @ \/ (rq.pc = "poll" /\ WellFormed[f]
                           /\ ParsedFrames[f].cmd_id = ATTITUDE_DATA)]
  /\ ndev' = ndev + 1
  /\ UNCHANGED <<sequence, ReqRest, ReqSession, lst>>

\* get_attitude: send_packet(ATTITUDE_DATA, b'', need_ack=True), sendall
\* writing the request when there is a session; {} at once if send_packet
\* returns False, else start_time is taken
ReqStart ==
  /\ rq.pc = "idle"
  /\ rq.calls < MaxReqs
  /\ LET e == SendEffect(ATTITUDE_DATA, <<>>, TRUE, TRUE)
     IN /\ sequence' = e.sequence
        /\ sock_out' = e.out
        /\ rq' = IF e.val = "True"
                 THEN [pc |-> "poll", calls |-> rq.calls + 1, n |-> rq.n + 1,
                       elapsed |-> 0, val |-> <<>>, arrived |-> FALSE]
                 ELSE [pc |-> "idle", calls |-> rq.calls + 1, n |-> rq.n,
                       elapsed |-> 0, val |-> Empty, arrived |-> FALSE]
  /\ UNCHANGED <<protoVars, gc_connected, pid_yaw, pid_pitch, last_move_time,
                 now, ret, ncmds, th, owner, built, wire, dlog, ncalls,
                 ReqSession, inbox, lst, ndev, trkVars, lateVars>>

\* get_attitude: after time.sleep(0.1), the loop condition
\* time.time() - start_time < timeout; {} when it fails
AfterSleep(e) ==
  rq' = IF e >= Timeout
        THEN [rq EXCEPT !.pc = "idle", !.elapsed = e, !.val = Empty]
        ELSE [rq EXCEPT !.elapsed = e]

\* variant: the getter returns whatever well-formed packet it receives
ReqRecvData_AnyCommand ==
  /\ rq.pc = "poll"
  /\ ~NoSession
  /\ inbox # <<>>
  /\ LET m == Head(inbox)
         response == ParsedFrames[m.f]
     IN IF response.ok
        THEN rq' = [rq EXCEPT !.pc = "idle", !.val = Response(m)]
        ELSE AfterSleep(rq.elapsed + PollSleep)
  /\ inbox' = Tail(inbox)
  /\ UNCHANGED <<sequence, ReqRest, ReqSession, lst, ndev>>

\* get_attitude: receive_packet(timeout=0.5) gets data from recv and parses
\* it; a response with the command id asked for is returned, anything else
\* is dropped
ReqRecvData ==
  /\ rq.pc = "poll"
  /\ ~NoSession
  /\ inbox # <<>>
  /\ LET m == Head(inbox)
         response == ParsedFrames[m.f]
     IN IF response.ok /\ response.cmd_id = ATTITUDE_DATA
        THEN rq' = [rq EXCEPT !.pc = "idle", !.val = Response(m)]
        ELSE AfterSleep(rq.elapsed + PollSleep)
  /\ inbox' = Tail(inbox)
  /\ UNCHANGED <<sequence, ReqRest, ReqSession, lst, ndev>>

\* get_attitude: recv times out after 0.5 s; receive_packet returns None
ReqRecvTimeout ==
  /\ rq.pc = "poll"
  /\ ~NoSession
  /\ inbox = <<>>
  /\ AfterSleep(rq.elapsed + RecvTimeout + PollSleep)
  /\ UNCHANGED <<sequence, ReqRest, ReqSession, inbox, lst, ndev>>

\* get_attitude: receive_packet returns None at once, there being no
\* session any more; nothing opens it again, so every round left in the
\* window goes the same way, a tenth of a second each
ReqRecvNone ==
  /\ rq.pc = "poll"
  /\ NoSession
  /\ AfterSleep(IF rq.elapsed + PollSleep > Timeout
                THEN rq.elapsed + PollSleep ELSE Timeout)
  /\ UNCHANGED <<sequence, ReqRest, ReqSession, inbox, lst, ndev>>

\* variant: the listener leaves its loop on a packet parse_packet refuses
ListenerRecv_BreaksOnNoise ==
  /\ lst.pc = "loop"
  /\ receive_running /\ connected /\ socket = "open"
  /\ inbox # <<>>
  /\ LET m == Head(inbox)
         accepted == ParsedFrames[m.f].ok
     IN lst' = [lst EXCEPT
                  !.pc = IF accepted THEN "loop" ELSE "exited",
                  !.why = IF accepted THEN "none" ELSE "noise",
                  !.sent_ok = @ + (IF WellFormed[m.f] THEN 1 ELSE 0),
                  !.sent_bad = @ + (IF WellFormed[m.f] THEN 0 ELSE 1),
                  !.good = @ + (IF accepted THEN 1 ELSE 0),
                  !.noise = @ + (IF accepted THEN 0 ELSE 1),
                  !.last = m.f]
  /\ inbox' = Tail(inbox)
  /\ UNCHANGED <<sequence, ReqRest, ReqSession, rq, ndev>>

\* _receive_loop: recv returns data, parse_packet(data); response_callback
\* is None, so a parsed packet is dropped like a refused one
ListenerRecv ==
  /\ lst.pc = "loop"
  /\ receive_running /\ connected /\ socket = "open"
  /\ inbox # <<>>
  /\ LET m == Head(inbox)
         accepted == ParsedFrames[m.f].ok
     IN lst' = [lst EXCEPT
                  !.sent_ok = @ + (IF WellFormed[m.f] THEN 1 ELSE 0),
                  !.sent_bad = @ + (IF WellFormed[m.f] THEN 0 ELSE 1),
                  !.good = @ + (IF accepted THEN 1 ELSE 0),
                  !.noise = @ + (IF accepted THEN 0 ELSE 1),
                  !.last = m.f]
  /\ inbox' = Tail(inbox)
  /\ UNCHANGED <<sequence, ReqRest, ReqSession, rq, ndev>>

\* _receive_loop: while self.receive_running and self.connected fails
ListenerExit ==
  /\ lst.pc = "loop"
  /\ ~(receive_running /\ connected)
  /\ lst' = [lst EXCEPT !.pc = "exited", !.why = "flags"]
  /\ UNCHANGED <<sequence, ReqRest, ReqSession, inbox, rq, ndev>>

\* _receive_loop: settimeout or recv raises an error of the socket: break
ListenerRaises ==
  /\ lst.pc = "loop"
  /\ receive_running /\ connected
  /\ lst' = [lst EXCEPT !.pc = "exited", !.why = "socket_error"]
  /\ UNCHANGED <<sequence, ReqRest, ReqSession, inbox, rq, ndev>>

ReqInit ==
  /\ sequence = 0
  /\ pkt = <<>>
  /\ orig = <<>>
  /\ tamper = "none"
  /\ parsed = <<>>
  /\ nbuilds = 0
  /\ ConnInit
  /\ OtherInit

\* the steps of the getter's polling loop
ReqPoll ==
  \/ ReqRecvData
  \/ ReqRecvTimeout
  \/ ReqRecvNone

ReqNext ==
  \/ ReqConnect
  \/ ReqDisconnect
  \/ DeviceSend
  \/ ReqStart
  \/ ReqRecvData
  \/ ReqRecvTimeout
  \/ ReqRecvNone
  \/ ListenerRecv
  \/ ListenerExit
  \/ ListenerRaises

SpecReq == ReqInit /\ [][ReqNext]_vars

\* the getter's thread is scheduled again and again
SpecReqLive == ReqInit /\ [][ReqNext]_vars /\ WF_vars(ReqPoll)

(***************************************************************************)
(* The target tracker (detection/tracker.py): the control loop's thread    *)
(* calling init and update, another thread calling stop, one lock.         *)
(***************************************************************************)
\* `min_dist < 100`: the acceptance radius of init, in pixels
AcceptRadius == 100

\* the targets the identity tracker can report for a frame: identity, and
\* the offset of the centroid from the centroid of the requested bbox; they
\* lie 60, 5, 100, 150 and 200 px away
Pool ==
  <<[id |-> 1, dx |-> 60, dy |-> 0],
    [id |-> 2, dx |-> 3, dy |-> 4],
    [id |-> 3, dx |-> 60, dy |-> 80],
    [id |-> 4, dx |-> 90, dy |-> 120],
    [id |-> 5, dx |-> 0, dy |-> 200]>>

\* the targets of Pool with identity in S, in Pool's order
TargetsOf(S) ==
  LET Test(t) == t.id \in S
  IN SelectSeq(Pool, Test)

\* what one detection pass yields: n detections, and the targets the
\* identity tracker makes of them
DetInputs ==
  {[n |-> 0, targets |-> <<>>]}
    \cup {[n |-> Len(Pool), targets |-> TargetsOf(S)] :
            S \in SUBSET {Pool[i].id : i \in 1..Len(Pool)}}

NoDets == [n |-> 0, targets |-> <<>>]

\* the boxes a visual tracker reports
Boxes == {<<10, 10, 64, 64>>, <<200, 120, 64, 64>>}

\* ((tcx - mx)**2 + (tcy - my)**2)**0.5 is compared through its square
DistSq(t) == t.dx * t.dx + t.dy * t.dy

\* the loop `for t in online_targets` of init from its i-th target on, best
\* holding best_id and min_dist (none: best_id is None, min_dist is inf)
RECURSIVE BestFrom(_, _, _)
BestFrom(targets, i, best) ==
  IF i > Len(targets) THEN best
  ELSE LET d2 == DistSq(targets[i])
       IN IF best.none \/ d2 < best.d2
          THEN BestFrom(targets, i + 1,
                        [id |-> targets[i].id, none |-> FALSE, d2 |-> d2])
          ELSE BestFrom(targets, i + 1, best)

NoBest == [id |-> 0, none |-> TRUE, d2 |-> 0]

\* variant: a target at the radius itself is taken
Accepted_Inclusive(best) ==
  ~best.none /\ best.d2 <= AcceptRadius * AcceptRadius

\* `best_id is not None and min_dist < 100`
Accepted(best) == ~best.none /\ best.d2 < AcceptRadius * AcceptRadius

NoRes == [op |-> "none", dets |-> NoDets, active |-> FALSE, id |-> 0,
          ran |-> FALSE, success |-> FALSE, ok |-> FALSE, bbox |-> <<>>,
          algo |-> <<>>]

TrkRest == <<sequence, protoVars, connVars, ctlVars, reqVars, lateVars>>

\* init: `with self.lock`, _create_tracker, tracking_active = True; a
\* visual tracker is seeded and the lock released; the identity tracker
\* without a detector gives up; with one, detector.detect(frame) is called
InitBegin ==
  /\ tk.pc = "idle"
  /\ lock = 0
  /\ nops < MaxOps
  /\ nops' = nops + 1
  /\ tracker' = "obj"
  /\ IF tracker_type = "BYTE" /\ detector
     THEN /\ lock' = 1
          /\ tracking_active' = TRUE
          /\ tk' = [tk EXCEPT !.pc = "init_detect"]
          /\ UNCHANGED res
     ELSE /\ lock' = 0
          /\ tracking_active' = (tracker_type # "BYTE")
          /\ tk' = tk
          /\ res' = [NoRes EXCEPT !.op = "init",
                                  !.active = (tracker_type # "BYTE"),
                                  !.id = tracked_id]
  /\ UNCHANGED <<TrkRest, tracker_type, detector, tracked_id, stp>>

\* init: detector.detect(frame) returns; with detections, the identity
\* tracker's targets are searched for the one nearest the bbox and
\* tracked_id is set or tracking_active cleared; the lock is released
InitDetectReturns ==
  /\ tk.pc = "init_detect"
  /\ \E dets \in DetInputs :
       LET best == BestFrom(dets.targets, 1, NoBest)
           locks == dets.n > 0 /\ Accepted(best)
       IN /\ tracked_id' = IF locks THEN best.id ELSE tracked_id
          /\ tracking_active' = IF dets.n > 0 /\ ~locks THEN FALSE
                                ELSE tracking_active
          /\ res' = [NoRes EXCEPT !.op = "init", !.dets = dets,
                                  !.active = tracking_active',
                                  !.id = tracked_id']
  /\ lock' = 0
  /\ tk' = [tk EXCEPT !.pc = "idle"]
  /\ UNCHANGED <<TrkRest, tracker_type, tracker, detector, stp, nops>>

\* TrackingApp.loop finds tracking_active set and calls update: for the
\* identity tracker with a detector and tracking active,
\* detector.detect(frame) is called, the lock not held
UpdateBegin ==
  /\ tk.pc = "idle"
  /\ tracking_active
  /\ nops < MaxOps
  /\ nops' = nops + 1
  /\ tk' = IF tracker_type = "BYTE" /\ detector /\ tracking_active
           THEN [tk EXCEPT !.pc = "upd_detect"]
           ELSE [tk EXCEPT !.pc = "upd_lock", !.dets = NoDets]
  /\ UNCHANGED <<TrkRest, tracker_type, tracker, tracking_active, tracked_id,
                 detector, lock, stp, res>>

\* update: detector.detect(frame) returns
UpdateDetectReturns ==
  /\ tk.pc = "upd_detect"
  /\ \E dets \in DetInputs : tk' = [tk EXCEPT !.pc = "upd_lock", !.dets = dets]
  /\ UNCHANGED <<TrkRest, tracker_type, tracker, tracking_active, tracked_id,
                 detector, lock, stp, res, nops>>

\* variant: a failed visual update leaves tracking_active as it is
UpdateBody_KeepsActive ==
  /\ tk.pc = "upd_lock"
  /\ lock = 0
  /\ IF ~tracking_active \/ tracker = "None"
     THEN /\ res' = [NoRes EXCEPT !.op = "update", !.active = tracking_active,
                                  !.id = tracked_id]
          /\ UNCHANGED tracking_active
     ELSE IF tracker_type = "BYTE"
     THEN /\ res' = [NoRes EXCEPT
                       !.op = "update", !.dets = tk.dets, !.ran = TRUE,
                       !.active = tracking_active, !.id = tracked_id,
                       !.ok = \E i \in 1..Len(tk.dets.targets) :
                                tk.dets.targets[i].id = tracked_id]
          /\ UNCHANGED tracking_active
     ELSE \E success \in BOOLEAN, bbox \in Boxes :
            /\ tracking_active' = tracking_active
            /\ res' = [NoRes EXCEPT
                         !.op = "update", !.ran = TRUE, !.success = success,
                         !.algo = bbox, !.ok = success, !.bbox = bbox,
                         !.active = tracking_active', !.id = tracked_id]
  /\ tk' = [tk EXCEPT !.pc = "upd_ret", !.dets = NoDets]
  /\ UNCHANGED <<TrkRest, tracker_type, tracker, tracked_id, detector, lock,
                 stp, nops>>

\* variant: the block under the lock does not look at tracking_active and
\* the tracker again
UpdateBody_NoRecheck ==
  /\ tk.pc = "upd_lock"
  /\ lock = 0
  /\ IF tracker_type = "BYTE"
     THEN /\ res' = [NoRes EXCEPT
                       !.op = "update", !.dets = tk.dets, !.ran = TRUE,
                       !.active = tracking_active, !.id = tracked_id,
                       !.ok = \E i \in 1..Len(tk.dets.targets) :
                                tk.dets.targets[i].id = tracked_id]
          /\ UNCHANGED tracking_active
     ELSE \E success \in BOOLEAN, bbox \in Boxes :
            /\ tracking_active' = (tracking_active /\ success)
            /\ res' = [NoRes EXCEPT
                         !.op = "update", !.ran = TRUE, !.success = success,
                         !.algo = bbox, !.ok = success, !.bbox = bbox,
                         !.active = tracking_active', !.id = tracked_id]
  /\ tk' = [tk EXCEPT !.pc = "upd_ret", !.dets = NoDets]
  /\ UNCHANGED <<TrkRest, tracker_type, tracker, tracked_id, detector, lock,
                 stp, nops>>

\* update: the block under `with self.lock`: (False, None) when tracking is
\* not active or there is no tracker; the identity tracker reports the
\* target with tracked_id if it is among this frame's; a visual tracker's
\* own update decides, a failure clearing tracking_active
UpdateBody ==
  /\ tk.pc = "upd_lock"
  /\ lock = 0
  /\ IF ~tracking_active \/ tracker = "None"
     THEN /\ res' = [NoRes EXCEPT !.op = "update", !.active = tracking_active,
                                  !.id = tracked_id]
          /\ UNCHANGED tracking_active
     ELSE IF tracker_type = "BYTE"
     THEN /\ res' = [NoRes EXCEPT
                       !.op = "update", !.dets = tk.dets, !.ran = TRUE,
                       !.active = tracking_active, !.id = tracked_id,
                       !.ok = \E i \in 1..Len(tk.dets.targets) :
                                tk.dets.targets[i].id = tracked_id]
          /\ UNCHANGED tracking_active
     ELSE \E success \in BOOLEAN, bbox \in Boxes :
            /\ tracking_active' = (tracking_active /\ success)
            /\ res' = [NoRes EXCEPT
                         !.op = "update", !.ran = TRUE, !.success = success,
                         !.algo = bbox, !.ok = success, !.bbox = bbox,
                         !.active = tracking_active', !.id = tracked_id]
  /\ tk' = [tk EXCEPT !.pc = "upd_ret", !.dets = NoDets]
  /\ UNCHANGED <<TrkRest, tracker_type, tracker, tracked_id, detector, lock,
                 stp, nops>>

\* TrackingApp.loop after update: on failure `tracker.tracking_active =
\* False`, written without the lock
LoopAfterUpdate ==
  /\ tk.pc = "upd_ret"
  /\ tracking_active' = (tracking_active /\ res.ok)
  /\ tk' = [tk EXCEPT !.pc = "idle"]
  /\ UNCHANGED <<TrkRest, tracker_type, tracker, tracked_id, detector, lock,
                 stp, res, nops>>

\* another thread calls stop() and comes to `with self.lock`
StopCall ==
  /\ stp = "idle"
  /\ nops < MaxOps
  /\ nops' = nops + 1
  /\ stp' = "waiting"
  /\ UNCHANGED <<TrkRest, tracker_type, tracker, tracking_active, tracked_id,
                 detector, lock, tk, res>>

\* variant: stop leaves tracked_id as it is
StopRuns_KeepsIdentity ==
  /\ stp = "waiting"
  /\ lock = 0
  /\ tracker' = "None"
  /\ tracking_active' = FALSE
  /\ stp' = "idle"
  /\ UNCHANGED <<TrkRest, tracker_type, detector, lock, tk, res, nops,
                 tracked_id>>

\* stop: the lock is had; tracker = None, tracking_active = False,
\* tracked_id = None
StopRuns ==
  /\ stp = "waiting"
  /\ lock = 0
  /\ tracker' = "None"
  /\ tracking_active' = FALSE
  /\ tracked_id' = 0
  /\ stp' = "idle"
  /\ UNCHANGED <<TrkRest, tracker_type, detector, lock, tk, res, nops>>

\* ObjectTracker.__init__, for either kind of tracker, with or without a
\* detector
TrkInit ==
  /\ sequence = 0
  /\ pkt = <<>>
  /\ orig = <<>>
  /\ tamper = "none"
  /\ parsed = <<>>
  /\ nbuilds = 0
  /\ ConnInit
  /\ CtlInitWith(NoGains, NoGains)
  /\ ReqFresh
  /\ tracker_type \in {"BYTE", "CSRT"}
  /\ detector \in BOOLEAN
  /\ TrkFresh
  /\ LateFresh

TrkNext ==
  \/ InitBegin
  \/ InitDetectReturns
  \/ UpdateBegin
  \/ UpdateDetectReturns
  \/ UpdateBody
  \/ LoopAfterUpdate
  \/ StopCall
  \/ StopRuns

SpecTrk == TrkInit /\ [][TrkNext]_vars

(***************************************************************************)
(* A PIDController (utils/pid.py) driven on its own: update and reset      *)
(* calls, time passing between them or not.                                *)
(***************************************************************************)
\* gains kp, ki, kd in hundredths: proportional only, and all three terms
PidGainSets ==
  {[kp |-> 200, ki |-> 0, kd |-> 0],
   [kp |-> 50, ki |-> 0, kd |-> 0],
   [kp |-> 200, ki |-> 50, kd |-> 10]}
\* errors handed to update, in pixels
PidErrors == {-400, 25}
\* the time that passes between two calls, in ticks of 10 ms, when it does
PidSteps == {1, 3}
\* the longest of them
MaxPidStep == 3

PidRest == <<sequence, protoVars, connVars, gc_connected, pid_pitch,
             last_move_time, sock_out, ret, ncmds, reqVars, trkVars,
             loopVars, camVars, appVars, rxVars>>

\* time.time() moves on between two calls
PidTick ==
  /\ npid < MaxPidCalls
  /\ \E d \in PidSteps :
       /\ now + d <= StartTime + MaxPidStep * npid
       /\ now' = now + d
  /\ UNCHANGED <<PidRest, pid_yaw, pidVars>>

\* PIDController.update(error)
PidCallUpdate ==
  /\ npid < MaxPidCalls
  /\ npid' = npid + 1
  /\ \E error \in PidErrors :
       LET u == PidUpdate(pid_yaw, error, now)
       IN /\ pid_yaw' = u.pid
          /\ plog' = [plog EXCEPT
                        !.error = error,
                        !.first = (pid_yaw.last_time = -1),
                        !.dt = u.dt, !.before = pid_yaw.integral,
                        !.after = u.pid.integral, !.d_num = u.d_num,
                        !.num = u.num, !.den = u.den, !.out = u.out,
                        !.calls = plog.calls + 1]
  /\ UNCHANGED <<PidRest, now>>

\* PIDController.reset()
PidCallReset ==
  /\ npid < MaxPidCalls
  /\ npid' = npid + 1
  /\ pid_yaw' = PidReset(pid_yaw)
  /\ plog' = [plog EXCEPT !.cleared = pid_yaw.integral]
  /\ UNCHANGED <<PidRest, now>>

\* PIDController.__init__ with the gains of PidGainSets
PidInit ==
  /\ sequence = 0
  /\ pkt = <<>>
  /\ orig = <<>>
  /\ tamper = "none"
  /\ parsed = <<>>
  /\ nbuilds = 0
  /\ ConnInit
  /\ \E g \in PidGainSets : CtlInitWith(g, NoGains)
  /\ ReqFresh
  /\ tracker_type = "CSRT"
  /\ detector = FALSE
  /\ TrkFresh
  /\ LateFresh

PidNext ==
  \/ PidTick
  \/ PidCallUpdate
  \/ PidCallReset

SpecPid == PidInit /\ [][PidNext]_vars

(***************************************************************************)
(* The control loop: TrackingApp.loop with its GimbalController            *)
(* (core/app.py, hardware/gimbal.py), and the loop of track_and_center.py. *)
(***************************************************************************)
\* pixel errors (error_x, error_y) of the tracked target
LoopErrors == {<<20, -400>>, <<-400, 0>>, <<0, 0>>}
\* what a cycle of the loop takes, in ticks of 10 ms
LoopSteps == {3, 6}

\* variant: an error of exactly the deadzone is acted on
InDeadzone_Strict(error) == Abs(error) < Deadzone

\* the else of `if abs(error) > self.deadzone`
InDeadzone(error) == Abs(error) <= Deadzone

\* variant: every call may send
Due_NoThrottle(t, last) == TRUE

\* `now - self.last_move_time > self.move_interval`
Due(t, last) == t - last > MoveInterval

\* variant: with both speeds zero nothing is sent
SendsOnTrack_SkipsZero(yaw, pitch, due) == due /\ (yaw # 0 \/ pitch # 0)

\* whether update_tracking writes a packet: rotate_gimbal with the speeds
\* if one is not zero, else stop(), once the interval has passed
SendsOnTrack(yaw, pitch, due) == due

\* update_tracking(error_x, error_y) at time t, up to the sending: the new
\* PID states, the speeds and whether the interval has passed
Track(error_x, error_y, t) ==
  LET uy == PidUpdate(pid_yaw, error_x, t)
      up == PidUpdate(pid_pitch, -error_y, t)
  IN [pid_yaw |-> IF InDeadzone(error_x) THEN PidReset(pid_yaw) ELSE uy.pid,
      yaw |-> IF InDeadzone(error_x) THEN 0 ELSE uy.out,
      pid_pitch |-> IF InDeadzone(error_y) THEN PidReset(pid_pitch)
                    ELSE up.pid,
      pitch |-> IF InDeadzone(error_y) THEN 0 ELSE up.out,
      due |-> Due(t, last_move_time)]

LoopRest == <<protoVars, th, owner, built, wire, dlog, ncalls, ret, ncmds,
              reqVars, tracker_type, tracker, tracked_id, detector, lock, tk,
              stp, res, nops, pidVars, program, camVars, appVars, rxVars>>

LoopSession == <<socket, connected, heartbeat_running, receive_running,
                 heartbeat_thread, receive_thread, link, gc_connected>>

\* a cycle of kind k at time t that wrote (or not) the effect e
Cycled(k, t, e, wrote) ==
  /\ now' = t
  /\ sequence' = e.sequence
  /\ sock_out' = e.out
  /\ ncyc' = ncyc + 1
  /\ cyc' = [NoCycle EXCEPT !.kind = k, !.sent = wrote, !.at = t,
                            !.prev = cyc.last, !.last = cyc.last,
                            !.wrote = IF wrote THEN t ELSE cyc.wrote]

\* TrackingApp.start / the head of track_and_center: the gimbal connects
\* and is centred
LoopStart ==
  /\ link = "init"
  /\ socket' = "open"
  /\ connected' = TRUE
  /\ receive_running' = TRUE
  /\ receive_thread' = 1
  /\ heartbeat_running' = TRUE
  /\ heartbeat_thread' = 2
  /\ gc_connected' = TRUE
  /\ link' = "up"
  /\ sequence' = NextSequence(sequence)
  /\ sock_out' = [n |-> sock_out.n + 1,
                  last |-> <<[cmd_id |-> CENTER, data |-> <<1>>,
                              need_ack |-> FALSE, seq |-> sequence]>>]
  /\ pid_yaw' = PidReset(pid_yaw)
  /\ pid_pitch' = PidReset(pid_pitch)
  /\ UNCHANGED <<LoopRest, tracking_active, last_move_time, now, cyc, ncyc>>

\* a target is chosen and the tracker initialised: pending_tracker_init in
\* the app; key 's' in the script, which first sends rotate(0, 0)
LoopSelect ==
  /\ gc_connected
  /\ ~tracking_active
  /\ ncyc < MaxCycles
  /\ \E d \in LoopSteps :
       IF program = "script"
       THEN Cycled("select", now + d,
                   RotateEffect(Whole(0), Whole(0), TRUE), TRUE)
       ELSE Cycled("select", now + d,
                   Effect(sequence, sock_out, "None"), FALSE)
  /\ tracking_active' = TRUE
  /\ UNCHANGED <<LoopRest, LoopSession, pid_yaw, pid_pitch, last_move_time>>

\* a cycle in which the tracker's update succeeds: update_tracking with the
\* target's error
LoopTrack ==
  /\ gc_connected
  /\ tracking_active
  /\ ncyc < MaxCycles
  /\ \E d \in LoopSteps, error \in LoopErrors :
       LET t == now + d
           r == Track(error[1], error[2], t)
           sends == SendsOnTrack(r.yaw, r.pitch, r.due)
           e == IF sends
                THEN RotateEffect(Whole(r.yaw), Whole(r.pitch), TRUE)
                ELSE Effect(sequence, sock_out, "None")
       IN /\ now' = t
          /\ pid_yaw' = r.pid_yaw
          /\ pid_pitch' = r.pid_pitch
          /\ last_move_time' = IF r.due THEN t ELSE last_move_time
          /\ sequence' = e.sequence
          /\ sock_out' = e.out
          /\ ncyc' = ncyc + 1
          /\ cyc' = [kind |-> "track", ex |-> error[1], ey |-> error[2],
                     yaw |-> r.yaw, pitch |-> r.pitch, due |-> r.due,
                     sent |-> sends, at |-> t, prev |-> cyc.last,
                     last |-> IF sends THEN t ELSE cyc.last,
                     wrote |-> IF sends THEN t ELSE cyc.wrote]
  /\ UNCHANGED <<LoopRest, LoopSession, tracking_active>>

\* a cycle in which the tracker's update fails. The app clears
\* tracking_active and calls gimbal.stop(); the script resets both PIDs and
\* sends rotate(0, 0) if the interval has passed, its tracker staying
LoopLost ==
  /\ gc_connected
  /\ tracking_active
  /\ ncyc < MaxCycles
  /\ \E d \in LoopSteps :
       LET t == now + d
           due == Due(t, last_move_time)
       IN IF program = "app"
          THEN /\ Cycled("lost", t, RotateEffect(Whole(0), Whole(0), TRUE),
                         TRUE)
               /\ tracking_active' = FALSE
               /\ UNCHANGED <<pid_yaw, pid_pitch, last_move_time>>
          ELSE /\ Cycled("lost", t,
                         IF due THEN RotateEffect(Whole(0), Whole(0), TRUE)
                         ELSE Effect(sequence, sock_out, "None"), due)
               /\ pid_yaw' = PidReset(pid_yaw)
               /\ pid_pitch' = PidReset(pid_pitch)
               /\ last_move_time' = IF due THEN t ELSE last_move_time
               /\ UNCHANGED tracking_active
  /\ UNCHANGED <<LoopRest, LoopSession>>

\* tracking is cancelled (key 'c'): the tracker stopped, the gimbal centred,
\* both PIDs reset
LoopCancel ==
  /\ gc_connected
  /\ tracking_active
  /\ ncyc < MaxCycles
  /\ \E d \in LoopSteps :
       Cycled("cancel", now + d,
              [SendEffect(CENTER, <<1>>, FALSE, TRUE) EXCEPT !.val = "None"],
              TRUE)
  /\ tracking_active' = FALSE
  /\ pid_yaw' = PidReset(pid_yaw)
  /\ pid_pitch' = PidReset(pid_pitch)
  /\ UNCHANGED <<LoopRest, LoopSession, last_move_time>>

\* either program, before its gimbal is connected
LoopInit ==
  /\ sequence = 0
  /\ pkt = <<>>
  /\ orig = <<>>
  /\ tamper = "none"
  /\ parsed = <<>>
  /\ nbuilds = 0
  /\ ConnInit
  /\ \E g \in GainSets : CtlInitWith(g, g)
  /\ ReqFresh
  /\ tracker_type = "CSRT"
  /\ detector = FALSE
  /\ TrkFresh
  /\ PidFresh
  /\ program \in {"app", "script"}
  /\ LoopFresh
  /\ copies = TRUE
  /\ CamFresh
  /\ AppFresh
  /\ RxFresh

LoopNext ==
  \/ LoopStart
  \/ LoopSelect
  \/ LoopTrack
  \/ LoopLost
  \/ LoopCancel

SpecLoop == LoopInit /\ [][LoopNext]_vars

\* the loop goes on running
SpecLoopLive == LoopInit /\ [][LoopNext]_vars /\ WF_vars(LoopNext)

(***************************************************************************)
(* The frame source: Camera (hardware/camera.py) and LatestFrameReader     *)
(* (track_and_center.py): a producer thread storing the pair it pulls, a   *)
(* consumer reading it and drawing on the frame it got.                    *)
(***************************************************************************)
CamRest == <<sequence, protoVars, connVars, ctlVars, reqVars, trkVars,
             pidVars, loopVars, copies, appVars, rxVars>>

\* what the frame object f shows (0: None)
Shown(f) == IF f = 0 THEN [pull |-> 0, drawn |-> FALSE] ELSE heap[f]

\* _update: `ret, frame = self.cap.read()`, outside the lock: a new frame
\* object, or (False, None)
ProdPull ==
  /\ prod.pc = "pull"
  /\ npull < MaxPulls
  /\ npull' = npull + 1
  /\ \E ok \in BOOLEAN :
       IF ok
       THEN /\ heap' = Append(heap, [pull |-> npull + 1, drawn |-> FALSE])
            /\ prod' = [prod EXCEPT !.pc = "store", !.ret = TRUE,
                                    !.frame = Len(heap) + 1]
       ELSE /\ heap' = heap
            /\ prod' = [prod EXCEPT !.pc = "store", !.ret = FALSE,
                                    !.frame = 0]
  /\ UNCHANGED <<CamRest, cam_lock, cam_buf, rdr, got>>

\* _update: `with self.lock: self.ret = ret; self.frame = frame`
ProdStore ==
  /\ prod.pc = "store"
  /\ cam_lock = 0
  /\ cam_buf' = [ret |-> prod.ret, frame |-> prod.frame]
  /\ prod' = [prod EXCEPT !.pc = "pull", !.stores = prod.stores + 1,
                          !.lret = prod.ret, !.lpull = Shown(prod.frame).pull]
  /\ UNCHANGED <<CamRest, cam_lock, heap, rdr, got, npull>>

\* the pair read() returns, f being the frame object handed out
ReadResult(f) ==
  [n |-> got.n + 1, ret |-> cam_buf.ret, frame |-> f,
   seen |-> Shown(cam_buf.frame), stores |-> prod.stores,
   lret |-> prod.lret, lpull |-> prod.lpull]

\* read(): the lock is taken. Camera copies the frame, if there is one,
\* holding the lock; LatestFrameReader returns self.ret, self.frame
ReadBegin ==
  /\ rdr = "idle"
  /\ cam_lock = 0
  /\ got.n < MaxReads
  /\ IF copies /\ cam_buf.frame # 0
     THEN /\ cam_lock' = 2
          /\ rdr' = "copying"
          /\ UNCHANGED got
     ELSE /\ got' = ReadResult(cam_buf.frame)
          /\ UNCHANGED <<cam_lock, rdr>>
  /\ UNCHANGED <<CamRest, cam_buf, heap, prod, npull>>

\* Camera.read: self.frame.copy() is done, the pair returned, the lock
\* released
ReadCopyDone ==
  /\ rdr = "copying"
  /\ heap' = Append(heap, heap[cam_buf.frame])
  /\ got' = ReadResult(Len(heap) + 1)
  /\ cam_lock' = 0
  /\ rdr' = "idle"
  /\ UNCHANGED <<CamRest, cam_buf, prod, npull>>

\* the loop draws on the frame it read (draw_hud, cv2.circle)
Draw ==
  /\ got.frame # 0
  /\ ~heap[got.frame].drawn
  /\ heap' = [heap EXCEPT ![got.frame].drawn = TRUE]
  /\ UNCHANGED <<CamRest, cam_lock, cam_buf, prod, rdr, got, npull>>

\* Camera.__init__ or LatestFrameReader.__init__, the producer started
CamInit ==
  /\ sequence = 0
  /\ pkt = <<>>
  /\ orig = <<>>
  /\ tamper = "none"
  /\ parsed = <<>>
  /\ nbuilds = 0
  /\ ConnInit
  /\ CtlInitWith(NoGains, NoGains)
  /\ ReqFresh
  /\ tracker_type = "CSRT"
  /\ detector = FALSE
  /\ TrkFresh
  /\ PidFresh
  /\ program = "app"
  /\ LoopFresh
  /\ copies \in BOOLEAN
  /\ CamFresh
  /\ AppFresh
  /\ RxFresh

CamNext ==
  \/ ProdPull
  \/ ProdStore
  \/ ReadBegin
  \/ ReadCopyDone
  \/ Draw

SpecCam == CamInit /\ [][CamNext]_vars

(***************************************************************************)
(* TrackingApp (core/app.py): the loop's thread going through its cycle    *)
(* step by step, and the API's threads calling set_tracking_target,        *)
(* hold_at_point, cancel_tracking, stop_tracking_without_center and        *)
(* move_gimbal between any two of its steps.                               *)
(***************************************************************************)
\* the time a frame takes to come, in ticks of 10 ms
AppSteps == {3, 6}

\* the offset of the tracked box from the centre of the frame
AppErrors == {<<-400, 0>>, <<0, 0>>}

\* what a detection pass yields: nothing, a target 5 px from the requested
\* box, or one 150 px away
AppDets ==
  {NoDets,
   [n |-> Len(Pool), targets |-> TargetsOf({2})],
   [n |-> Len(Pool), targets |-> TargetsOf({4})]}

\* the speeds of a manual move
ManualMoves == {<<50, 0>>}

AppRest == <<protoVars, th, owner, built, wire, dlog, ncalls, ret, ncmds,
             reqVars, detector, tk, stp, res, nops, pidVars, loopVars,
             camVars, rxVars>>

AppSession == <<socket, connected, heartbeat_running, receive_running,
                heartbeat_thread, receive_thread, link, gc_connected>>

AppGimbal == <<sequence, pid_yaw, pid_pitch, last_move_time, sock_out>>

AppTracker == <<tracker_type, tracker, tracking_active, tracked_id, lock>>

\* the socket's output after one more packet, built with sequence number seq
Wrote(out, cmd_id, data, seq) ==
  [n |-> out.n + 1,
   last |-> <<[cmd_id |-> cmd_id, data |-> data, need_ack |-> FALSE,
               seq |-> seq]>>]

\* a GimbalController call writing the effect e, made by `by`; stale: it
\* follows from a tracker result older than a stopping call that returned
AppWrites(e, by, stale) ==
  /\ sequence' = e.sequence
  /\ sock_out' = e.out
  /\ hist' = IF e.out.n > sock_out.n
             THEN [hist EXCEPT !.by = by, !.stale = stale]
             ELSE hist

\* loop 102-113: a frame has come and the mailbox holds a request, which is
\* handed to tracker.init
AppTakeRequest ==
  /\ link = "up"
  /\ lp.pc = "top"
  /\ lp.n < MaxAppCycles
  /\ pending_tracker_init # 0
  /\ \E d \in AppSteps : now' = now + d
  /\ lp' = [lp EXCEPT !.pc = "init", !.req = pending_tracker_init,
                      !.n = @ + 1]
  /\ UNCHANGED <<AppRest, AppSession, AppGimbal, AppTracker,
                 pending_tracker_init, api, hist>>

\* loop 102-111: a frame has come and the mailbox is empty
AppNoRequest ==
  /\ link = "up"
  /\ lp.pc = "top"
  /\ lp.n < MaxAppCycles
  /\ pending_tracker_init = 0
  /\ \E d \in AppSteps : now' = now + d
  /\ lp' = [lp EXCEPT !.pc = "track", !.req = 0, !.n = @ + 1]
  /\ UNCHANGED <<AppRest, AppSession, AppGimbal, AppTracker,
                 pending_tracker_init, api, hist>>

\* tracker.init(frame, request), as InitBegin: the handle is made by the
\* backend tracker_type names
AppInitBegin ==
  /\ lp.pc = "init"
  /\ lock = 0
  /\ tracker' = "obj"
  /\ hist' = [hist EXCEPT !.made = tracker_type, !.applied = lp.req]
  /\ IF tracker_type = "BYTE" /\ detector
     THEN /\ lock' = 1
          /\ tracking_active' = TRUE
          /\ lp' = [lp EXCEPT !.pc = "init_detect"]
     ELSE /\ lock' = 0
          /\ tracking_active' = (tracker_type # "BYTE")
          /\ lp' = [lp EXCEPT !.pc = "clear"]
  /\ UNCHANGED <<AppRest, AppSession, AppGimbal, now, tracker_type,
                 tracked_id, pending_tracker_init, api>>

\* tracker.init: the detection returns, as InitDetectReturns
AppInitDetectReturns ==
  /\ lp.pc = "init_detect"
  /\ \E dets \in AppDets :
       LET best == BestFrom(dets.targets, 1, NoBest)
           locks == dets.n > 0 /\ Accepted(best)
       IN /\ tracked_id' = IF locks THEN best.id ELSE tracked_id
          /\ tracking_active' = IF dets.n > 0 /\ ~locks THEN FALSE
                                ELSE tracking_active
  /\ lock' = 0
  /\ lp' = [lp EXCEPT !.pc = "clear"]
  /\ UNCHANGED <<AppRest, AppSession, AppGimbal, now, tracker_type, tracker,
                 pending_tracker_init, api, hist>>

\* loop 114: `self.pending_tracker_init = None`, whatever the mailbox holds
\* by now
AppClearMailbox ==
  /\ lp.pc = "clear"
  /\ pending_tracker_init' = 0
  /\ hist' = [hist EXCEPT
                !.dropped = IF pending_tracker_init \notin {0, lp.req}
                            THEN pending_tracker_init ELSE @]
  /\ lp' = [lp EXCEPT !.pc = "track"]
  /\ UNCHANGED <<AppRest, AppSession, AppGimbal, AppTracker, now, api>>

\* loop 117-118 and update 109-111: tracking is active and update is
\* called, which starts a detection for the identity tracker
AppUpdateBegin ==
  /\ lp.pc = "track"
  /\ tracking_active
  /\ lp' = IF tracker_type = "BYTE" /\ detector /\ tracking_active
           THEN [lp EXCEPT !.pc = "upd_detect"]
           ELSE [lp EXCEPT !.pc = "upd_lock", !.dets = NoDets]
  /\ UNCHANGED <<AppRest, AppSession, AppGimbal, AppTracker, now,
                 pending_tracker_init, api, hist>>

\* loop 117, 137-181: tracking is not active; the cycle ends
AppIdleCycle ==
  /\ lp.pc = "track"
  /\ ~tracking_active
  /\ lp' = [lp EXCEPT !.pc = "top"]
  /\ UNCHANGED <<AppRest, AppSession, AppGimbal, AppTracker, now,
                 pending_tracker_init, api, hist>>

\* update: the detection returns
AppUpdateDetectReturns ==
  /\ lp.pc = "upd_detect"
  /\ \E dets \in AppDets : lp' = [lp EXCEPT !.pc = "upd_lock", !.dets = dets]
  /\ UNCHANGED <<AppRest, AppSession, AppGimbal, AppTracker, now,
                 pending_tracker_init, api, hist>>

\* update 113-147, as UpdateBody: the dispatch on tracker_type as it is now,
\* on the handle as it is now. What the identity tracker's update does with
\* a frame for its detections is not known: it may return as a success or a
\* failure (or raise: AppUpdateRaises)
AppUpdateBody ==
  /\ lp.pc = "upd_lock"
  /\ lock = 0
  /\ IF ~tracking_active \/ tracker = "None"
     THEN /\ lp' = [lp EXCEPT !.pc = "result", !.ok = FALSE,
                              !.path = "none", !.on = "none",
                              !.gen = api.stops, !.dets = NoDets]
          /\ UNCHANGED tracking_active
     ELSE IF tracker_type = "BYTE"
     THEN /\ \E error \in AppErrors :
               lp' = [lp EXCEPT
                        !.pc = "result",
                        !.ok = \E i \in 1..Len(lp.dets.targets) :
                                 lp.dets.targets[i].id = tracked_id,
                        !.path = IF lp.dets.n = 0 THEN "none"
                                 ELSE "identity",
                        !.on = IF lp.dets.n = 0 THEN "none" ELSE hist.made,
                        !.error = error, !.gen = api.stops,
                        !.dets = NoDets]
          /\ UNCHANGED tracking_active
     ELSE \E success \in BOOLEAN, error \in AppErrors :
            /\ tracking_active' = (tracking_active /\ success)
            /\ lp' = [lp EXCEPT !.pc = "result", !.ok = success,
                                !.path = "visual", !.on = hist.made,
                                !.error = error, !.gen = api.stops,
                                !.dets = NoDets]
  /\ UNCHANGED <<AppRest, AppSession, AppGimbal, now, tracker_type, tracker,
                 tracked_id, lock, pending_tracker_init, api, hist>>

\* update 143 on a handle the identity backend made, raising: the loop's
\* `finally` runs cleanup (gimbal.stop(), gimbal.disconnect()) and the
\* thread ends
AppUpdateRaises ==
  /\ lp.pc = "upd_lock"
  /\ lock = 0
  /\ tracking_active
  /\ tracker # "None"
  /\ tracker_type # "BYTE"
  /\ hist.made = "BYTE"
  /\ lp' = [lp EXCEPT !.pc = "ended", !.ok = FALSE, !.path = "visual",
                      !.on = hist.made, !.gen = api.stops, !.dets = NoDets]
  /\ AppWrites(IF gc_connected THEN RotateEffect(Whole(0), Whole(0), TRUE)
               ELSE Effect(sequence, sock_out, "None"), "cleanup", FALSE)
  /\ heartbeat_running' = FALSE
  /\ heartbeat_thread' = 0
  /\ receive_running' = FALSE
  /\ receive_thread' = 0
  /\ socket' = "None"
  /\ connected' = FALSE
  /\ gc_connected' = FALSE
  /\ link' = "down"
  /\ UNCHANGED <<AppRest, AppTracker, pid_yaw, pid_pitch, last_move_time,
                 now, pending_tracker_init, api>>

\* loop 119-131: update succeeded; gimbal.update_tracking with the error of
\* the box it returned
AppResultTrack ==
  /\ lp.pc = "result"
  /\ lp.ok
  /\ LET r == Track(lp.error[1], lp.error[2], now)
         sends == gc_connected /\ SendsOnTrack(r.yaw, r.pitch, r.due)
     IN /\ pid_yaw' = IF gc_connected THEN r.pid_yaw ELSE pid_yaw
        /\ pid_pitch' = IF gc_connected THEN r.pid_pitch ELSE pid_pitch
        /\ last_move_time' = IF gc_connected /\ r.due THEN now
                             ELSE last_move_time
        /\ AppWrites(IF sends
                     THEN RotateEffect(Whole(r.yaw), Whole(r.pitch), TRUE)
                     ELSE Effect(sequence, sock_out, "None"),
                     "track", lp.gen < api.stops)
  /\ lp' = [lp EXCEPT !.pc = "top"]
  /\ UNCHANGED <<AppRest, AppSession, AppTracker, now, pending_tracker_init,
                 api>>

\* loop 132-135: update failed; `self.tracker.tracking_active = False`,
\* gimbal.stop()
AppResultLost ==
  /\ lp.pc = "result"
  /\ ~lp.ok
  /\ tracking_active' = FALSE
  /\ AppWrites(IF gc_connected THEN RotateEffect(Whole(0), Whole(0), TRUE)
               ELSE Effect(sequence, sock_out, "None"), "lost", FALSE)
  /\ lp' = [lp EXCEPT !.pc = "top"]
  /\ UNCHANGED <<AppRest, AppSession, pid_yaw, pid_pitch, last_move_time,
                 now, tracker_type, tracker, tracked_id, lock,
                 pending_tracker_init, api>>

\* set_tracking_target(bbox), from a thread of the API
ApiSetTrackingTarget ==
  /\ link = "up"
  /\ api.n < MaxApi
  /\ pending_tracker_init' = api.reqs + 1
  /\ api' = [api EXCEPT !.n = @ + 1, !.reqs = @ + 1]
  /\ UNCHANGED <<AppRest, AppSession, AppGimbal, AppTracker, now, lp, hist>>

\* hold_at_point(x, y): tracker_type goes from BYTE to CSRT, no lock taken,
\* and the box around the point is put in the mailbox
ApiHoldAtPoint ==
  /\ link = "up"
  /\ api.n < MaxApi
  /\ tracker_type' = IF tracker_type = "BYTE" THEN "CSRT" ELSE tracker_type
  /\ pending_tracker_init' = api.reqs + 1
  /\ api' = [api EXCEPT !.n = @ + 1, !.reqs = @ + 1]
  /\ UNCHANGED <<AppRest, AppSession, AppGimbal, now, tracker,
                 tracking_active, tracked_id, lock, lp, hist>>

\* cancel_tracking(): tracker.stop() once the lock is free, gimbal.stop(),
\* gimbal.center()
ApiCancelTracking ==
  /\ link = "up"
  /\ api.n < MaxApi
  /\ lock = 0
  /\ tracker' = "None"
  /\ tracking_active' = FALSE
  /\ tracked_id' = 0
  /\ AppWrites(IF gc_connected
               THEN Effect(NextSequence(NextSequence(sequence)),
                           Wrote(Wrote(sock_out, GIMBAL_ROTATION, <<0, 0>>,
                                       sequence),
                                 CENTER, <<1>>, NextSequence(sequence)),
                           "None")
               ELSE Effect(sequence, sock_out, "None"), "cancel", FALSE)
  /\ pid_yaw' = IF gc_connected THEN PidReset(pid_yaw) ELSE pid_yaw
  /\ pid_pitch' = IF gc_connected THEN PidReset(pid_pitch) ELSE pid_pitch
  /\ api' = [api EXCEPT !.n = @ + 1, !.stops = @ + 1, !.cancels = @ + 1,
                        !.floor = api.reqs]
  /\ UNCHANGED <<AppRest, AppSession, last_move_time, now, tracker_type,
                 lock, pending_tracker_init, lp>>

\* stop_tracking_without_center(), which /clear_track and /track_status
\* call: tracker.stop(), gimbal.stop()
ApiStopTracking ==
  /\ link = "up"
  /\ api.n < MaxApi
  /\ lock = 0
  /\ tracker' = "None"
  /\ tracking_active' = FALSE
  /\ tracked_id' = 0
  /\ AppWrites(IF gc_connected THEN RotateEffect(Whole(0), Whole(0), TRUE)
               ELSE Effect(sequence, sock_out, "None"), "stop", FALSE)
  /\ api' = [api EXCEPT !.n = @ + 1, !.stops = @ + 1, !.cancels = @ + 1,
                        !.floor = api.reqs]
  /\ UNCHANGED <<AppRest, AppSession, pid_yaw, pid_pitch, last_move_time,
                 now, tracker_type, lock, pending_tracker_init, lp>>

\* move_gimbal(yaw_speed, pitch_speed): tracker.stop() if tracking is
\* active, then the manual rotate
ApiMoveGimbal ==
  /\ link = "up"
  /\ api.n < MaxApi
  /\ IF tracking_active
     THEN /\ lock = 0
          /\ tracker' = "None"
          /\ tracking_active' = FALSE
          /\ tracked_id' = 0
     ELSE UNCHANGED <<tracker, tracking_active, tracked_id>>
  /\ \E m \in ManualMoves :
       AppWrites(IF gc_connected
                 THEN RotateEffect(Whole(m[1]), Whole(m[2]), TRUE)
                 ELSE Effect(sequence, sock_out, "None"), "manual", FALSE)
  /\ api' = [api EXCEPT !.n = @ + 1, !.stops = @ + 1]
  /\ UNCHANGED <<AppRest, AppSession, pid_yaw, pid_pitch, last_move_time,
                 now, tracker_type, lock, pending_tracker_init, lp>>

\* TrackingApp.__init__ with its detector, for either kind of tracker
AppInit ==
  /\ sequence = 0
  /\ pkt = <<>>
  /\ orig = <<>>
  /\ tamper = "none"
  /\ parsed = <<>>
  /\ nbuilds = 0
  /\ ConnInit
  /\ \E g \in GainSets : CtlInitWith(g, g)
  /\ ReqFresh
  /\ tracker_type \in {"BYTE", "CSRT"}
  /\ detector = TRUE
  /\ TrkFresh
  /\ LateFresh

AppNext ==
  \/ LoopStart
  \/ AppTakeRequest
  \/ AppNoRequest
  \/ AppInitBegin
  \/ AppInitDetectReturns
  \/ AppClearMailbox
  \/ AppUpdateBegin
  \/ AppIdleCycle
  \/ AppUpdateDetectReturns
  \/ AppUpdateBody
  \/ AppUpdateRaises
  \/ AppResultTrack
  \/ AppResultLost
  \/ ApiSetTrackingTarget
  \/ ApiHoldAtPoint
  \/ ApiCancelTracking
  \/ ApiStopTracking
  \/ ApiMoveGimbal

SpecApp == AppInit /\ [][AppNext]_vars

(***************************************************************************)
(* The listener (_receive_loop of siyi_connection.py) reading the inbound  *)
(* byte stream: the device writes whole packets, and each recv(1024)       *)
(* returns some of the bytes waiting, from the first on.                   *)
(***************************************************************************)
RxRest == <<sequence, protoVars, th, owner, built, wire, dlog, ctlVars,
            reqVars, trkVars, pidVars, loopVars, camVars, appVars>>

\* SIYIConnection.connect: the socket connected, both threads started
RxConnect ==
  /\ link = "init"
  /\ ncalls' = ncalls + 1
  /\ socket' = "open"
  /\ connected' = TRUE
  /\ receive_running' = TRUE
  /\ receive_thread' = 1
  /\ heartbeat_running' = TRUE
  /\ heartbeat_thread' = 2
  /\ link' = "up"
  /\ UNCHANGED <<RxRest, rxVars>>

\* the device writes a well-formed packet to the stream
RxDeviceWrites ==
  /\ link = "up"
  /\ rx.whole < MaxRxPackets
  /\ \E f \in {g \in 1..Len(DeviceFrames) : WellFormed[g]} :
       rx_buf' = rx_buf \o DeviceFrames[f]
  /\ rx' = [rx EXCEPT !.whole = @ + 1]
  /\ UNCHANGED <<RxRest, connVars>>

\* _receive_loop 139-147: recv(1024) returns the first k of the bytes
\* waiting; parse_packet is given those bytes and nothing else, and the
\* callback gets what it makes of them, if anything
RxRecv ==
  /\ receive_running
  /\ connected
  /\ socket = "open"
  /\ \E k \in 1..Len(rx_buf) :
       LET data == SubSeq(rx_buf, 1, k)
       IN /\ rx_buf' = SubSeq(rx_buf, k + 1, Len(rx_buf))
          /\ rx' = [rx EXCEPT
                      !.reads = @ + 1,
                      !.handled = IF parse_packet(data) # None THEN @ + 1
                                  ELSE @]
  /\ UNCHANGED <<RxRest, connVars>>

RxInit ==
  /\ sequence = 0
  /\ pkt = <<>>
  /\ orig = <<>>
  /\ tamper = "none"
  /\ parsed = <<>>
  /\ nbuilds = 0
  /\ ConnInit
  /\ OtherInit

RxNext ==
  \/ RxConnect
  \/ RxDeviceWrites
  \/ RxRecv

SpecRx == RxInit /\ [][RxNext]_vars

(***************************************************************************)
(* Properties of the protocol engine (checked under SpecProto, SpecSeq)    *)
(***************************************************************************)
Built == orig # <<>>
Intact == Built /\ tamper = "none"
Parsed == parsed # <<>>

\* C2: round trip. Parsing an undamaged built packet succeeds and gives back
\* the command id, the payload byte for byte, its length and the sequence
\* number the build used.
C2_RoundTrip ==
  (Intact /\ Parsed) =>
    /\ parsed[1].ok
    /\ parsed[1].cmd_id = orig[1].cmd_id
    /\ parsed[1].data = orig[1].data
    /\ parsed[1].data_len = Len(orig[1].data)
    /\ parsed[1].seq = orig[1].seq

C2_Witness ==
  /\ Intact /\ Parsed
  /\ Len(orig[1].data) = 2 /\ orig[1].need_ack /\ orig[1].seq = 65535
  /\ parsed[1].data = orig[1].data

\* C3: checksum sensitivity. A built packet with any single bit inverted is
\* rejected by parse_packet.
C3_SingleBitFlipRejected ==
  (Built /\ tamper = "flip" /\ Parsed) => ~parsed[1].ok

C5_Malformed(b) ==
  \/ Len(b) < 10
  \/ b[1] # 85 \/ b[2] # 102
  \/ Len(b) < 8 + (b[4] + 256 * b[5]) + 2
  \/ calculate_crc16(SubSeq(b, 1, 8 + b[4] + 256 * b[5]))
       # b[9 + b[4] + 256 * b[5]] + 256 * b[10 + b[4] + 256 * b[5]]

C5_ParseFailsExactlyOnMalformed ==
  Parsed =>
    /\ parsed[1].ok <=> ~C5_Malformed(pkt)
    /\ parsed[1].ok =>
         /\ parsed[1].ctrl = pkt[3]
         /\ parsed[1].data_len = pkt[4] + 256 * pkt[5]
         /\ parsed[1].seq = pkt[6] + 256 * pkt[7]
         /\ parsed[1].cmd_id = pkt[8]
         /\ parsed[1].data = SubSeq(pkt, 9, 8 + parsed[1].data_len)

\* a frame with a foreign start marker and a matching checksum was refused
C5_Witness ==
  /\ Parsed /\ tamper = "foreign" /\ ~parsed[1].ok
  /\ Len(pkt) >= 10
  /\ Len(pkt) = 8 + (pkt[4] + 256 * pkt[5]) + 2

HeartbeatVector == <<85, 102, 1, 1, 0, 0, 0, 0, 0, 89, 139>>
CenterVector == <<85, 102, 1, 1, 0, 0, 0, 8, 1, 209, 18>>

\* C6 as stated: the heartbeat with an EMPTY payload, built on a fresh
\* session, is 55 66 01 01 00 00 00 00 00 59 8b.
C6_EmptyHeartbeatVector ==
  (Intact /\ orig[1] = [cmd_id |-> HEARTBEAT, data |-> <<>>,
                        need_ack |-> FALSE, seq |-> 0])
    => pkt = HeartbeatVector

\* C6 as amended: the heartbeat as the heartbeat thread builds it, command
\* 0x00 with the one-byte payload 00, no ack, on a fresh session (sequence
\* 0), is 55 66 01 01 00 00 00 00 00 59 8b.
C6_HeartbeatVector ==
  (Intact /\ orig[1] = [cmd_id |-> HEARTBEAT, data |-> <<0>>,
                        need_ack |-> FALSE, seq |-> 0])
    => pkt = HeartbeatVector

C6_Witness ==
  /\ Intact
  /\ orig[1] = [cmd_id |-> HEARTBEAT, data |-> <<0>>, need_ack |-> FALSE,
                seq |-> 0]
  /\ Len(pkt) = 11

\* C7: center (command 0x08, payload 01, no ack) built with the counter at 0
\* is 55 66 01 01 00 00 00 08 01 d1 12.
C7_CenterVector ==
  (Intact /\ orig[1] = [cmd_id |-> CENTER, data |-> <<1>>,
                        need_ack |-> FALSE, seq |-> 0])
    => pkt = CenterVector

C7_Witness ==
  /\ Intact
  /\ orig[1] = [cmd_id |-> CENTER, data |-> <<1>>, need_ack |-> FALSE,
                seq |-> 0]
  /\ pkt[10] = 209 /\ pkt[11] = 18

(***************************************************************************)
(* Properties of the device link (checked under Spec)                      *)
(***************************************************************************)
SeqOf(b) == UnpackU16(PacketOf(b)[6], PacketOf(b)[7])

\* C1: sequence allocation is serialized across senders. No two packets
\* built on the session, by the heartbeat thread or by any other caller of
\* send_packet, carry the same sequence number (fewer than 65536 packets are
\* built in all).
C1_NoDuplicateSequence ==
  \A i, j \in 1..Len(built) : i # j => SeqOf(built[i]) # SeqOf(built[j])

HeartbeatAlive == \E t \in 1..MaxThreads : th[t].kind = "hb" /\ Alive(t)
ListenerAlive == \E t \in 1..MaxThreads : th[t].kind = "rx" /\ Alive(t)
NoCrash == \A t \in 1..MaxThreads : th[t].pc # "crashed"

\* C8: between calls, whenever the last connect() returned success and
\* disconnect() has not been called since, a heartbeat thread and a listener
\* thread are running (a listener ended by a socket error set aside).
C8_TasksRunWhileConnected ==
  (owner.pc = "idle" /\ link = "up" /\ NoCrash)
    => (HeartbeatAlive /\ ListenerAlive)

DidBefore(e, i) == \E j \in 1..(i - 1) : dlog[j] = e

\* C9: disconnect() closes the socket only after both running flags were
\* cleared and every join it called has returned; when it has returned the
\* session is not connected and holds no socket.
C9_CloseAfterStopAndJoin ==
  /\ \A i \in 1..Len(dlog) :
       dlog[i] = "close" =>
         /\ DidBefore("hb_flag", i)
         /\ DidBefore("rx_flag", i)
         /\ DidBefore("hb_join_call", i) => DidBefore("hb_join_ret", i)
         /\ DidBefore("rx_join_call", i) => DidBefore("rx_join_ret", i)
  /\ owner.pc = "d_fin" =>
       /\ ~heartbeat_running /\ ~receive_running
       /\ heartbeat_thread = 0 /\ receive_thread = 0
       /\ socket = "None"
  /\ (owner.pc = "idle" /\ owner.last = "disconnect") =>
       (~connected /\ socket = "None")

C9_Witness ==
  /\ owner.pc = "d_fin"
  /\ dlog = <<"hb_flag", "hb_join_call", "hb_join_ret",
              "rx_flag", "rx_join_call", "rx_join_ret", "close">>

\* C10: at the moment disconnect() has closed the socket and dropped its
\* thread handles, neither the heartbeat thread nor the listener thread is
\* still running.
C10_NoTaskRunsAtClose ==
  (owner.pc = "d_fin" /\ Len(dlog) > 0 /\ dlog[Len(dlog)] = "close")
    => \A t \in 1..MaxThreads : ~Alive(t)

(***************************************************************************)
(* Properties of the command facade and the controller (checked under      *)
(* SpecCmd)                                                                *)
(***************************************************************************)
\* C11: while there is no open session, send and every motion command of
\* the controller (rotate, stop, center, nudge, zoom, capture) returns False
\* or None instead of raising, writes nothing to the socket and leaves the
\* sequence counter as it was.
C11_NoOpWhileDisconnected ==
  [][(ncmds' = ncmds + 1 /\ NoSession) =>
       /\ sock_out' = sock_out
       /\ sequence' = sequence
       /\ ret'.val \in {"False", "None"}]_vars

\* after a session that wrote packets was closed, a nudge did nothing
C11_Witness ==
  /\ NoSession
  /\ ret.op = "move_gimbal" /\ ~ret.open /\ ret.val = "False"
  /\ sock_out.n > 0 /\ sequence > 0

\* the bytes of a written packet before its checksum: header and payload
WrittenBody(w) ==
  PackHeader(CtrlOf(w.need_ack), Len(w.data), w.seq, w.cmd_id) \o w.data

\* C16: every rotate command written to the socket carries exactly two
\* payload bytes, the yaw speed and the pitch speed as signed bytes, each in
\* -100..100, whatever the PID loop, a nudge or another caller passed in.
C16_RotateSpeedsInRange ==
  \A i \in 1..Len(sock_out.last) :
    LET body == WrittenBody(sock_out.last[i])
    IN body[8] = GIMBAL_ROTATION =>
         /\ Len(body) = HeaderLen + 2
         /\ UnpackU16(body[4], body[5]) = 2
         /\ UnpackI8(body[9]) \in MinOut..MaxOut
         /\ UnpackI8(body[10]) \in MinOut..MaxOut

\* a nudge called with speeds 127 and -101 was written as 100 and -100
C16_Witness ==
  /\ ret.op = "move_gimbal" /\ ret.val = "True"
  /\ sock_out.last # <<>>
  /\ sock_out.last[1].cmd_id = GIMBAL_ROTATION
  /\ WrittenBody(sock_out.last[1])[9] = 100
  /\ WrittenBody(sock_out.last[1])[10] = 156

(***************************************************************************)
(* Properties of the telemetry getter and the listener (checked under      *)
(* SpecReq, SpecReqLive)                                                   *)
(***************************************************************************)
Returned12 == rq.pc = "idle" /\ rq.val # <<>>

\* C12: a getter for command id C returns the device's response whenever a
\* well-formed packet with command id C was sent on the session during its
\* window (after the request was written, before the timeout ran out), the
\* listener thread running beside it and the session staying open; it
\* returns the empty value only if no such packet came.
C12_ResponseReturnedIfArrived ==
  (Returned12 /\ rq.arrived /\ link = "up") => rq.val[1].kind = "response"

\* C13: a getter whose response does not come ends within its window plus
\* one round and returns the empty value, never an exception; a packet with
\* another command id, or one parse_packet refuses, is never returned as the
\* answer; the getter's own steps leave the session connected.
C13_NoResponseIsEmpty ==
  /\ [](/\ rq.elapsed <= Timeout + RecvTimeout + PollSleep
        /\ Returned12 =>
             \/ rq.val = Empty /\ (rq.n = rq.calls => rq.elapsed >= Timeout)
             \/ /\ rq.val[1].kind = "response"
                /\ WellFormed[rq.val[1].f]
                /\ ParsedFrames[rq.val[1].f].ok
                /\ ParsedFrames[rq.val[1].f].cmd_id = ATTITUDE_DATA)
  /\ [][(rq'.pc # rq.pc \/ rq'.elapsed # rq.elapsed \/ rq'.val # rq.val)
          => (connected' = connected /\ socket' = socket)]_vars
  /\ (rq.pc = "poll" ~> rq.pc = "idle")

\* the first getter read every frame the device sent, none of them an
\* answer, and returned the empty value with the session still open
C13_Witness ==
  /\ Returned12 /\ rq.val = Empty /\ rq.calls = 1 /\ rq.n = 1
  /\ rq.elapsed >= Timeout
  /\ link = "up" /\ connected
  /\ ndev >= 2 /\ inbox = <<>> /\ lst.sent_ok = 0 /\ lst.sent_bad = 0

\* C14: a response a getter returns was sent by the device after that
\* getter's request was written to the socket: no frame sent before it, such
\* as the late answer to an earlier getter that timed out, is returned.
C14_ResponseSentAfterRequest ==
  (Returned12 /\ rq.val[1].kind = "response") => rq.val[1].epoch >= rq.n

Nearest17 ==
  CHOOSE t \in {res.dets.targets[i] : i \in 1..Len(res.dets.targets)} :
    \A i \in 1..Len(res.dets.targets) :
      DistSq(t) <= DistSq(res.dets.targets[i])

NoneAccepted18 ==
  \/ ~detector
  \/ res.dets.n = 0
  \/ \A i \in 1..Len(res.dets.targets) :
       DistSq(res.dets.targets[i]) > AcceptRadius * AcceptRadius

\* C18: an identity-lock init that accepts no candidate leaves the tracker
\* idle: tracking is not reported active, and tracked_id is none of this
\* init's candidates
C18_NoCandidateEndsIdle ==
  (res.op = "init" /\ tracker_type = "BYTE" /\ NoneAccepted18) =>
    /\ ~res.active
    /\ \A i \in 1..Len(res.dets.targets) : res.dets.targets[i].id # res.id

\* C19: a stop() called while a detection of init or update is in flight
\* finds the lock free, so it runs without waiting for the detection
C19_StopNeverWaitsForDetection ==
  (stp = "waiting" /\ tk.pc \in {"init_detect", "upd_detect"}) => lock = 0

\* C20: an update of a visual tracker returns the algorithm's success and
\* bbox; on success the tracker is still active when update returns, on
\* failure update reports the loss and tracking is not active from then on
C20_VisualUpdate ==
  (res.op = "update" /\ tracker_type # "BYTE" /\ res.ran) =>
    /\ res.ok = res.success
    /\ res.bbox = res.algo
    /\ res.active = res.success
    /\ ~res.success => ~tracking_active

\* a visual update that lost the target, back in the loop
C20_Witness ==
  /\ res.op = "update"
  /\ tracker_type = "CSRT"
  /\ res.ran
  /\ ~res.success
  /\ ~res.ok
  /\ ~tracking_active
  /\ tracker = "obj"
  /\ tk.pc = "idle"

\* C21: when an identity-lock update does not find tracked_id among the
\* cycle's targets, the tracker is still active, with the same identity,
\* when the control loop has dealt with the result and starts its next cycle
C21_MissKeepsTracking ==
  (/\ res.op = "update"
   /\ tracker_type = "BYTE"
   /\ res.ran
   /\ res.id # 0
   /\ res.dets.n > 0
   /\ ~res.ok
   /\ tk.pc = "idle"
   /\ tracker = "obj") =>
    tracking_active /\ tracked_id = res.id

\* the tracker is idle, handle and identity cleared
Stopped22 == tracker = "None" /\ ~tracking_active /\ tracked_id = 0

\* C22: whatever the state stop() runs in, it leaves the tracker idle with
\* handle and identity cleared; run on a tracker that is already so, it
\* changes nothing of the tracker
C22_StopIdempotent ==
  [][(stp = "waiting" /\ stp' = "idle") =>
       /\ Stopped22'
       /\ Stopped22 =>
            UNCHANGED <<tracker, tracking_active, tracked_id, tracker_type,
                        detector, lock, tk, res>>]_vars

\* three stop() calls, one after the other, and nothing else
C22_Witness ==
  /\ Stopped22
  /\ stp = "idle"
  /\ tk.pc = "idle"
  /\ res.op = "none"
  /\ nops = 3

\* x brought into MinOut..MaxOut, in hundredths
Limited23(x) ==
  IF x > MaxOut * 100 THEN MaxOut * 100
  ELSE IF x < MinOut * 100 THEN MinOut * 100
  ELSE x

\* C23: with kp > 0 and ki = kd = 0, every update with error e returns kp * e
\* brought into the output range, however many updates went before and
\* whatever time passed between them
C23_ProportionalOnly ==
  (plog.calls > 0 /\ pid_yaw.kp > 0 /\ pid_yaw.ki = 0 /\ pid_yaw.kd = 0) =>
    plog.num * 100 = plog.den * Limited23(pid_yaw.kp * plog.error)

\* the third update of a proportional controller, 30 ms after the second,
\* returning 0.5 * 25 = 12.5
C23_Witness ==
  /\ plog.calls = 3
  /\ pid_yaw.kp = 50 /\ pid_yaw.ki = 0 /\ pid_yaw.kd = 0
  /\ plog.error = 25
  /\ plog.dt = 3
  /\ plog.num * 2 = plog.den * 25
  /\ plog.out = 12

\* C24: the first update after construction or after reset() uses dt = 0:
\* the derivative term is zero and the integral stays at 0, whatever the
\* error and whatever the controller held before the reset
C24_FirstUpdateUsesZeroDt ==
  (plog.calls > 0 /\ plog.first) =>
    /\ plog.dt = 0
    /\ plog.d_num = 0
    /\ plog.before = 0
    /\ plog.after = 0
    /\ pid_yaw.integral = 0
    /\ plog.num * 100 = plog.den * Limited23(pid_yaw.kp * plog.error)

\* a first update after a reset that cleared a nonzero integral, of a
\* controller with all three gains
C24_Witness ==
  /\ plog.first
  /\ plog.calls = 3
  /\ plog.cleared # 0
  /\ plog.error = 25
  /\ pid_yaw.ki > 0 /\ pid_yaw.kd > 0
  /\ pid_yaw.prev_error = 25
  /\ pid_yaw.last_time = now

\* a PID as reset() leaves it
Zeroed25(pid) == pid.integral = 0 /\ pid.prev_error = 0 /\ pid.last_time = -1

\* C25: once the loop has seen the tracker's update fail, the PID state of
\* both axes is zeroed
C25_PidResetOnLoss == cyc.kind = "lost" => Zeroed25(pid_yaw) /\ Zeroed25(pid_pitch)

\* what update_tracking makes of one axis: error, the speed computed, the
\* controller before and after, the time of the call
AxisDone26(error, speed, pid, after, t) ==
  IF Abs(error) <= Deadzone
  THEN speed = 0 /\ after = PidReset(pid) /\ after.integral = 0
  ELSE speed = PidUpdate(pid, error, t).out /\ after = PidUpdate(pid, error, t).pid

\* C26: in every tracking update an axis whose error is within the deadzone
\* gets speed 0 and its PID reset, its integral at 0; the other axis is
\* updated as if alone
C26_Deadzone ==
  [][(ncyc' = ncyc + 1 /\ cyc'.kind = "track") =>
       /\ AxisDone26(cyc'.ex, cyc'.yaw, pid_yaw, pid_yaw', now')
       /\ AxisDone26(-cyc'.ey, cyc'.pitch, pid_pitch, pid_pitch', now')]_vars

\* yaw at the edge of the deadzone is reset while pitch, far out, is driven
\* and has integrated
C26_Witness ==
  /\ cyc.kind = "track"
  /\ cyc.ex = Deadzone
  /\ cyc.yaw = 0
  /\ Zeroed25(pid_yaw)
  /\ cyc.ey = -400
  /\ cyc.pitch = MaxOut
  /\ pid_pitch.integral > 0
  /\ pid_pitch.last_time = now

\* C27: a tracking update sends only if more than the minimum interval has
\* passed since the last tracking update that sent; inside the interval it
\* sends nothing
C27_Throttle ==
  (cyc.kind = "track" /\ cyc.prev >= 0) =>
    /\ cyc.sent => cyc.at - cyc.prev > MoveInterval
    /\ cyc.at - cyc.prev <= MoveInterval =>
         ~cyc.sent /\ cyc.last = cyc.prev /\ cyc.wrote < cyc.at

\* a tracking update 30 ms after one that sent: speeds computed, nothing
\* sent
C27_Witness ==
  /\ cyc.kind = "track"
  /\ cyc.prev >= 0
  /\ cyc.at - cyc.prev = 3
  /\ cyc.pitch # 0
  /\ ~cyc.sent
  /\ sock_out.last[1].cmd_id = GIMBAL_ROTATION
  /\ sock_out.last[1].data # <<0, 0>>

\* the last tracking update computed both speeds zero
ZeroComputed28 == cyc.kind = "track" /\ cyc.yaw = 0 /\ cyc.pitch = 0

\* the last packet written is a rotate with a speed that is not zero
Stale28 ==
  /\ sock_out.last # <<>>
  /\ sock_out.last[1].cmd_id = GIMBAL_ROTATION
  /\ sock_out.last[1].data # <<0, 0>>

\* the last packet written is rotate(0, 0)
Halted28 ==
  /\ sock_out.last # <<>>
  /\ sock_out.last[1].cmd_id = GIMBAL_ROTATION
  /\ sock_out.last[1].data = <<0, 0>>

C29_ReadReturnsLatestPair ==
  got.n > 0 =>
    IF got.stores = 0
    THEN ~got.ret /\ got.frame = 0
    ELSE /\ got.ret = got.lret
         /\ (got.frame = 0) = (got.lpull = 0)
         /\ got.seen = [pull |-> got.lpull, drawn |-> FALSE]

\* C30: when the producer has pulled a frame and comes to store it while a
\* read() is copying the frame before, the lock is free for it
C30_PushNeverWaitsForRead ==
  (prod.pc = "store" /\ rdr = "copying") => cam_lock = 0

\* the fields of the tracker the lock is there for
Guarded31 == <<tracking_active, tracker, tracked_id, tracker_type>>

\* the steps taken inside `with self.lock` by init, update and stop
UnderLock31 == InitBegin \/ InitDetectReturns \/ UpdateBody \/ StopRuns

\* C31: every step that changes the active flag, the handle, the remembered
\* identity or the backend selection is a step of init, update or stop
\* inside `with self.lock`
C31_WritesUnderLock == [][Guarded31' # Guarded31 => UnderLock31]_vars

\* C36: between calls of the control loop, a tracker that is not active has
\* no handle and no remembered identity
C36_IdleIsCleared ==
  (tk.pc = "idle" /\ ~tracking_active) => (tracker = "None" /\ tracked_id = 0)

\* C39: an identity-lock update that finds, when it has the lock, that stop
\* has cleared the tracker since the update began returns (False, None)
\* without handing the detections to the identity tracker, and leaves the
\* tracker not active, without handle and identity
C39_StaleDetectionDropped ==
  [][(/\ tk.pc = "upd_lock"
      /\ tk'.pc = "upd_ret"
      /\ tracker_type = "BYTE"
      /\ detector
      /\ Stopped22) =>
       (/\ ~res'.ok
        /\ res'.bbox = <<>>
        /\ ~res'.ran
        /\ Stopped22')]_vars

\* an identity-lock update has returned after a stop that ran while it was
\* under way
C39_Witness ==
  /\ tk.pc = "upd_ret"
  /\ res.op = "update"
  /\ tracker_type = "BYTE"
  /\ detector
  /\ ~res.ran
  /\ ~res.ok
  /\ stp = "idle"
  /\ Stopped22

\* the last packet written is a rotate with a speed not zero, sent by
\* update_tracking for a tracker result got before a stopping call returned
StaleRotate32 ==
  /\ hist.by = "track"
  /\ hist.stale
  /\ sock_out.last # <<>>
  /\ sock_out.last[1].cmd_id = GIMBAL_ROTATION
  /\ sock_out.last[1].data # <<0, 0>>

\* C32: once cancel_tracking, stop_tracking_without_center or move_gimbal
\* has returned, the loop, back at the top of its cycle with tracking not
\* active, has not left as the last command a rotate with a speed not zero
\* worked out from a tracker result older than that call
C32_NoStaleRotate == (lp.pc = "top" /\ ~tracking_active) => ~StaleRotate32

\* C33: after a cancel has returned the tracker, outside init, is active
\* only by a request made after that cancel
C33_CancelHolds ==
  (api.cancels > 0 /\ lock = 0 /\ tracking_active) =>
    hist.applied > api.floor

\* C34: the loop never clears the mailbox of a request other than the one
\* it has handed to init
C34_NoRequestLost == hist.dropped = 0

\* C35: the update path taken inside update is that of the backend that
\* made the handle: the visual update is not called on a handle of the
\* identity tracker, nor the identity update on a visual tracker
C35_HandleMatchesDispatch ==
  /\ lp.path = "visual" => lp.on # "BYTE"
  /\ lp.path = "identity" => lp.on = "BYTE"

\* C37: when the listener has read all the device has written, it has handed
\* to the callback as many packets as the device wrote well-formed
C37_EveryPacketHandled == rx_buf = <<>> => rx.handled = rx.whole

\* the threads of a kind that are alive
AliveOf(kind) == {t \in 1..MaxThreads : th[t].kind = kind /\ Alive(t)}

\* C38: at no time are two heartbeat threads alive, nor two listener
\* threads
C38_OneTaskOfEachKind ==
  /\ Cardinality(AliveOf("hb")) <= 1
  /\ Cardinality(AliveOf("rx")) <= 1

\* disconnect() has been called and has not returned
InDisconnect ==
  owner.pc \in {"d_hb_join", "d_rx", "d_rx_join", "d_close", "d_fin"}

\* disconnect() has returned and connect() was not called since
Disconnected == owner.pc = "idle" /\ owner.last = "disconnect"

\* a heartbeat thread about to send once more, which is not followed
\* further because MaxBuilds packets are built
Unfollowed(t) ==
  /\ th[t].kind = "hb"
  /\ th[t].pc = "loop"
  /\ heartbeat_running
  /\ connected
  /\ ~BuildRoom

\* C40: a heartbeat or listener thread alive when disconnect() is called
\* ends in the end (threads no longer followed set aside)
C40_TasksEndAfterDisconnect ==
  \A t \in 1..MaxThreads :
    (InDisconnect /\ Alive(t)) ~> (~Alive(t) \/ Unfollowed(t))

\* ... and does so unless connect() is called again
TasksEndUnlessReconnected ==
  \A t \in 1..MaxThreads :
    (InDisconnect /\ Alive(t)) ~> (~Alive(t) \/ owner.pc = "c_connect")

\* nothing is written to the socket once disconnect() has returned, until
\* connect() is called again
NoWriteWhileDisconnected == [][Disconnected => wire' = wire]_vars

=============================================================================
